---- MODULE Spec2Model ----
(***************************************************************************)
(* libtsm VT emulator (src/tsm/tsm-vte.c): the escape-sequence parser, the *)
(* action dispatcher, the G-set mapper, the mode flags, the keyboard       *)
(* encoder and the outbound writer with local echo.                        *)
(*                                                                         *)
(* The C functions are operators on a "world" record                       *)
(*     w = [vte |-> struct tsm_vte, con |-> the screen, obs |-> log]       *)
(* and return the world after the call.  obs is the log of what one public *)
(* call did (parser actions, screen operations, write-callback calls,      *)
(* nested input calls); every public call starts with an empty log.        *)
(***************************************************************************)
EXTENDS Integers, Sequences, FiniteSets, TLC

VARIABLES
    vte,    \* struct tsm_vte
    con,    \* the screen the instance drives (struct tsm_screen)
    obs,    \* what the last public call did
    hist,   \* the bytes fed since the parser last was in GROUND
    room,   \* how many more bytes the current sequence may take
    mark    \* the state DECSC found when it last ran, if still of interest

vars == <<vte, con, obs, hist, room, mark>>

(* ----------------------------- bounds --------------------------------- *)
\* screen size of the modelled screen
SizeX == 2
SizeY == 10
\* longest escape sequence (in bytes) the environment feeds beyond an
\* initial prefix
MaxSeq == 4
\* most buffers of several bytes the environment feeds between two resets
MaxBufs == 5

(* ------------------------- program constants -------------------------- *)
CSI_ARG_MAX == 16
OSC_MAX_LEN == 128
TSM_COLOR_FOREGROUND == 16
TSM_COLOR_BACKGROUND == 17
TSM_COLOR_NUM == 18
\* the replacement codepoint of the UTF-8 decoder
TSM_UCS4_REPLACEMENT == 65533

States == {"GROUND", "ESC", "ESC_INT", "CSI_ENTRY", "CSI_PARAM", "CSI_INT",
           "CSI_IGNORE", "DCS_ENTRY", "DCS_PARAM", "DCS_INT", "DCS_PASS",
           "DCS_IGNORE", "OSC_STRING", "ST_IGNORE"}

Min(a, b) == IF a < b THEN a ELSE b
Max(a, b) == IF a > b THEN a ELSE b

(* ------------------------------ palette -------------------------------- *)
\* static uint8_t color_palette[TSM_COLOR_NUM][3], indexed by colour code
color_palette ==
    [c \in 0..17 |->
        CASE c = 0  -> <<0, 0, 0>>
          [] c = 1  -> <<205, 0, 0>>
          [] c = 2  -> <<0, 205, 0>>
          [] c = 3  -> <<205, 205, 0>>
          [] c = 4  -> <<0, 0, 238>>
          [] c = 5  -> <<205, 0, 205>>
          [] c = 6  -> <<0, 205, 205>>
          [] c = 7  -> <<229, 229, 229>>
          [] c = 8  -> <<127, 127, 127>>
          [] c = 9  -> <<255, 0, 0>>
          [] c = 10 -> <<0, 255, 0>>
          [] c = 11 -> <<255, 255, 0>>
          [] c = 12 -> <<92, 92, 255>>
          [] c = 13 -> <<255, 0, 255>>
          [] c = 14 -> <<0, 255, 255>>
          [] c = 15 -> <<255, 255, 255>>
          [] c = 16 -> <<229, 229, 229>>
          [] c = 17 -> <<0, 0, 0>>]

color_palette_solarized ==
    [c \in 0..17 |->
        <<<<7, 54, 66>>, <<220, 50, 47>>, <<133, 153, 0>>,
          <<181, 137, 0>>, <<38, 139, 210>>, <<211, 54, 130>>,
          <<42, 161, 152>>, <<238, 232, 213>>, <<0, 43, 54>>,
          <<203, 75, 22>>, <<88, 110, 117>>, <<101, 123, 131>>,
          <<131, 148, 150>>, <<108, 113, 196>>, <<147, 161, 161>>,
          <<253, 246, 227>>, <<238, 232, 213>>, <<7, 54, 66>>>>[c + 1]]

color_palette_solarized_black ==
    [c \in 0..17 |->
        <<<<0, 0, 0>>, <<220, 50, 47>>, <<133, 153, 0>>,
          <<181, 137, 0>>, <<38, 139, 210>>, <<211, 54, 130>>,
          <<42, 161, 152>>, <<238, 232, 213>>, <<0, 43, 54>>,
          <<203, 75, 22>>, <<88, 110, 117>>, <<101, 123, 131>>,
          <<131, 148, 150>>, <<108, 113, 196>>, <<147, 161, 161>>,
          <<253, 246, 227>>, <<238, 232, 213>>, <<0, 0, 0>>>>[c + 1]]

color_palette_solarized_white ==
    [c \in 0..17 |->
        <<<<7, 54, 66>>, <<220, 50, 47>>, <<133, 153, 0>>,
          <<181, 137, 0>>, <<38, 139, 210>>, <<211, 54, 130>>,
          <<42, 161, 152>>, <<238, 232, 213>>, <<0, 43, 54>>,
          <<203, 75, 22>>, <<88, 110, 117>>, <<101, 123, 131>>,
          <<131, 148, 150>>, <<108, 113, 196>>, <<147, 161, 161>>,
          <<253, 246, 227>>, <<7, 54, 66>>, <<238, 232, 213>>>>[c + 1]]

color_palette_soft_black ==
    [c \in 0..17 |->
        <<<<63, 63, 63>>, <<112, 80, 80>>, <<96, 180, 138>>,
          <<223, 175, 143>>, <<154, 184, 215>>, <<220, 140, 195>>,
          <<140, 208, 211>>, <<255, 255, 255>>, <<112, 144, 128>>,
          <<220, 163, 163>>, <<114, 213, 163>>, <<240, 223, 175>>,
          <<148, 191, 243>>, <<236, 147, 211>>, <<147, 224, 227>>,
          <<220, 220, 204>>, <<220, 220, 204>>, <<44, 44, 44>>>>[c + 1]]

color_palette_base16_dark ==
    [c \in 0..17 |->
        <<<<0, 0, 0>>, <<171, 70, 66>>, <<161, 181, 108>>,
          <<247, 202, 136>>, <<124, 175, 194>>, <<186, 139, 175>>,
          <<134, 193, 185>>, <<170, 170, 170>>, <<85, 85, 85>>,
          <<171, 70, 66>>, <<161, 181, 108>>, <<247, 202, 136>>,
          <<124, 175, 194>>, <<186, 139, 175>>, <<134, 193, 185>>,
          <<255, 255, 255>>, <<216, 216, 216>>, <<24, 24, 24>>>>[c + 1]]

color_palette_base16_light ==
    [c \in 0..17 |->
        <<<<0, 0, 0>>, <<171, 70, 66>>, <<161, 181, 108>>,
          <<247, 202, 136>>, <<124, 175, 194>>, <<186, 139, 175>>,
          <<134, 193, 185>>, <<170, 170, 170>>, <<85, 85, 85>>,
          <<171, 70, 66>>, <<161, 181, 108>>, <<247, 202, 136>>,
          <<124, 175, 194>>, <<186, 139, 175>>, <<134, 193, 185>>,
          <<255, 255, 255>>, <<24, 24, 24>>, <<216, 216, 216>>>>[c + 1]]

\* get_palette: the table the palette name selects: the built-in default
\* when no name is set or the name is unknown, the instance's own copy for
\* "custom" when one was supplied
get_palette(v) ==
    CASE v.palette_name = "NULL" -> "color_palette"
      [] v.palette_name = "custom" /\ v.custom_palette_storage # <<>> ->
           "custom_palette_storage"
      [] v.palette_name = "solarized" -> "color_palette_solarized"
      [] v.palette_name = "solarized-black" -> "color_palette_solarized_black"
      [] v.palette_name = "solarized-white" -> "color_palette_solarized_white"
      [] v.palette_name = "soft-black" -> "color_palette_soft_black"
      [] v.palette_name = "base16-dark" -> "color_palette_base16_dark"
      [] v.palette_name = "base16-light" -> "color_palette_base16_light"
      [] OTHER -> "color_palette"

\* the table vte->palette points at
palette_table(v) ==
    CASE v.palette = "custom_palette_storage" ->
           [c \in 0..(TSM_COLOR_NUM - 1) |-> v.custom_palette_storage[c + 1]]
      [] v.palette = "color_palette_solarized" -> color_palette_solarized
      [] v.palette = "color_palette_solarized_black" ->
           color_palette_solarized_black
      [] v.palette = "color_palette_solarized_white" ->
           color_palette_solarized_white
      [] v.palette = "color_palette_soft_black" -> color_palette_soft_black
      [] v.palette = "color_palette_base16_dark" -> color_palette_base16_dark
      [] v.palette = "color_palette_base16_light" -> color_palette_base16_light
      [] OTHER -> color_palette

\* vte->palette[code]
palette_rgb(v, code) == palette_table(v)[code]

\* struct tsm_screen_attr after memset(0)
ZeroAttr ==
    [fccode |-> 0, bccode |-> 0, fr |-> 0, fg |-> 0, fb |-> 0,
     br |-> 0, bg |-> 0, bb |-> 0, bold |-> 0, italic |-> 0,
     underline |-> 0, inverse |-> 0, protect |-> 0, blink |-> 0]

\* to_rgb, foreground: a code >= 0 is resolved against the palette, bold
\* brightening the first eight colours and codes from TSM_COLOR_NUM up
\* falling back to the default foreground
to_rgb_fg(v, attr) ==
    IF attr.fccode >= 0
    THEN LET c  == IF attr.bold = 1 /\ attr.fccode < 8
                   THEN attr.fccode + 8 ELSE attr.fccode
             fc == IF c >= TSM_COLOR_NUM THEN TSM_COLOR_FOREGROUND ELSE c
         IN  [attr EXCEPT !.fr = palette_rgb(v, fc)[1],
                          !.fg = palette_rgb(v, fc)[2],
                          !.fb = palette_rgb(v, fc)[3]]
    ELSE attr

\* to_rgb, background
to_rgb_bg(v, attr) ==
    IF attr.bccode >= 0
    THEN LET bc == IF attr.bccode >= TSM_COLOR_NUM
                   THEN TSM_COLOR_BACKGROUND ELSE attr.bccode
         IN  [attr EXCEPT !.br = palette_rgb(v, bc)[1],
                          !.bg = palette_rgb(v, bc)[2],
                          !.bb = palette_rgb(v, bc)[3]]
    ELSE attr

\* to_rgb: resolve colour codes >= 0 against the palette
to_rgb(v, attr) == to_rgb_bg(v, to_rgb_fg(v, attr))

copy_fcolor(dest, src) ==
    [dest EXCEPT !.fccode = src.fccode, !.fr = src.fr,
                 !.fg = src.fg, !.fb = src.fb]

copy_bcolor(dest, src) ==
    [dest EXCEPT !.bccode = src.bccode, !.br = src.br,
                 !.bg = src.bg, !.bb = src.bb]

(* ------------------------------ screen --------------------------------- *)
\* The screen is an external collaborator: a cursor in a SizeX x SizeY
\* grid, a flag set and the default (erase) attribute.  Every operation is
\* logged in obs.scr in call order.
tsm_screen(w, op, a, b) ==
    LET c  == w.con
        c1 == CASE op = "move_to" ->
                     [c EXCEPT !.cursor_x = Min(a, SizeX - 1),
                               !.cursor_y = Min(b, SizeY - 1)]
                [] op = "move_up" ->
                     [c EXCEPT !.cursor_y = Max(0, @ - a)]
                [] op = "move_down" ->
                     [c EXCEPT !.cursor_y = Min(SizeY - 1, @ + a)]
                [] op = "move_left" ->
                     [c EXCEPT !.cursor_x = Max(0, @ - a)]
                [] op = "move_right" ->
                     [c EXCEPT !.cursor_x = Min(SizeX - 1, @ + a)]
                [] op = "newline" ->
                     [c EXCEPT !.cursor_x = 0,
                               !.cursor_y = Min(SizeY - 1, @ + 1)]
                [] op = "move_line_home" -> [c EXCEPT !.cursor_x = 0]
                [] op = "tab_right" -> [c EXCEPT !.cursor_x = SizeX - 1]
                [] op = "tab_left" -> [c EXCEPT !.cursor_x = 0]
                [] op = "write" ->
                     [c EXCEPT !.cursor_x = Min(SizeX - 1, @ + 1)]
                [] op = "set_flags" -> [c EXCEPT !.flags = @ \cup {a}]
                [] op = "reset_flags" -> [c EXCEPT !.flags = @ \ {a}]
                [] op = "reset" -> [c EXCEPT !.flags = {}]
                [] op = "set_def_attr" -> [c EXCEPT !.def_attr = a]
                [] OTHER -> c
    IN  [w EXCEPT !.con = c1, !.obs.scr = Append(@, <<op, a, b>>)]

\* the screen right after its own creation
NewScreen == [cursor_x |-> 0, cursor_y |-> 0, flags |-> {}, def_attr |-> ZeroAttr]

\* an empty log for a public call
EmptyObs(op) ==
    [op |-> op, arg |-> <<>>, pre_state |-> "GROUND", ret |-> TRUE,
     acts |-> <<>>, scr |-> <<>>, out |-> <<>>, writes |-> <<>>,
     calls |-> <<>>, bell |-> 0, osc |-> <<>>, pre_flags |-> {},
     pre_cattr |-> ZeroAttr, err |-> "0"]

(* --------------------------- UTF-8 decoder ----------------------------- *)
\* struct tsm_utf8_mach: an external byte-fed decoder.  feed returns the
\* machine after one byte; get yields the codepoint in ACCEPT and the
\* replacement character otherwise.
tsm_utf8_mach_feed(m, c) ==
    IF m.state \in {"START", "ACCEPT", "REJECT"}
    THEN CASE c \in {192, 193} -> [m EXCEPT !.state = "REJECT"]
           [] c < 128 -> [state |-> "ACCEPT", ch |-> c]
           [] c \in 128..191 -> [m EXCEPT !.state = "START"]
           [] c \in 194..223 -> [state |-> "EXPECT1", ch |-> (c % 32) * 64]
           [] c \in 224..239 -> [state |-> "EXPECT2", ch |-> (c % 16) * 4096]
           [] c \in 240..247 -> [state |-> "EXPECT3", ch |-> (c % 8) * 262144]
           [] OTHER -> [m EXCEPT !.state = "REJECT"]
    ELSE IF c \notin 128..191
    THEN [m EXCEPT !.state = "REJECT"]
    ELSE CASE m.state = "EXPECT3" ->
                [state |-> "EXPECT2", ch |-> m.ch + (c % 64) * 4096]
           [] m.state = "EXPECT2" ->
                [state |-> "EXPECT1", ch |-> m.ch + (c % 64) * 64]
           [] OTHER ->
                [state |-> "ACCEPT", ch |-> m.ch + (c % 64)]

tsm_utf8_mach_get(m) ==
    IF m.state = "ACCEPT" THEN m.ch ELSE TSM_UCS4_REPLACEMENT

\* tsm_ucs4_to_utf8: the UTF-8 bytes of a codepoint (none for a codepoint
\* that has no encoding)
tsm_ucs4_to_utf8(g) ==
    CASE g < 0 \/ g > 1114111 -> <<>>
      [] g \in 55296..57343 -> <<>>
      [] g \in 64976..65007 -> <<>>
      [] g % 65536 \in {65534, 65535} -> <<>>
      [] g < 128 -> <<g>>
      [] g < 2048 -> <<192 + (g \div 64), 128 + (g % 64)>>
      [] g < 65536 -> <<224 + (g \div 4096), 128 + ((g \div 64) % 64),
                        128 + (g % 64)>>
      [] OTHER -> <<240 + (g \div 262144), 128 + ((g \div 4096) % 64),
                    128 + ((g \div 64) % 64), 128 + (g % 64)>>

\* tsm_symbol_make: a codepoint as a screen symbol (0 when out of range;
\* a sign-extended char is held as a negative number)
tsm_symbol_make(ucs4) == IF ucs4 < 0 THEN 0 ELSE ucs4

\* the static character-set tables: entry idx of table set
charset_entry(set, idx) ==
    CASE set = "unicode_lower" -> idx + 32
      [] set = "unicode_upper" -> idx + 160
      [] set = "dec_supplemental_graphics" -> idx + 160
      [] set = "dec_special_graphics" ->
           (CASE idx = 74 -> 9496    \* j
              [] idx = 75 -> 9488    \* k
              [] idx = 76 -> 9484    \* l
              [] idx = 77 -> 9492    \* m
              [] idx = 81 -> 9472    \* q
              [] idx = 88 -> 9474    \* x
              [] OTHER -> idx + 32)

(* ------------------------- state save / reset -------------------------- *)
\* write_cb: the user's write callback receives one buffer
write_cb(w, u8) == [w EXCEPT !.obs.out = Append(@, u8)]

\* write_console
\* the current attribute becomes a, and with background-colour erase the
\* screen's default attribute follows it
set_cattr(w, a) ==
    IF "BACKGROUND_COLOR_ERASE_MODE" \in w.vte.flags
    THEN tsm_screen([w EXCEPT !.vte.cattr = a], "set_def_attr", a, 0)
    ELSE [w EXCEPT !.vte.cattr = a]

\* tsm_screen_write with the attribute a, which to_rgb stored in cattr
screen_write(w, sym, a) ==
    tsm_screen([w EXCEPT !.vte.cattr = a], "write", sym, a)

write_console(w, sym) == screen_write(w, sym, to_rgb(w.vte, w.vte.cattr))

\* a reset_state that leaves the saved state as memset left it
reset_state_skipped(w) == w

reset_state(w) ==
    [w EXCEPT !.vte.saved_state =
        [cursor_x |-> 0, cursor_y |-> 0,
         cattr |-> [copy_bcolor(copy_fcolor(w.vte.saved_state.cattr,
                                            w.vte.def_attr), w.vte.def_attr)
                       EXCEPT !.bold = 0, !.italic = 0, !.underline = 0,
                              !.inverse = 0, !.protect = 0, !.blink = 0],
         gl |-> "g0", gr |-> "g1",
         wrap_mode |-> TRUE, origin_mode |-> FALSE]]

save_state(w) ==
    [w EXCEPT !.vte.saved_state =
        [cursor_x |-> w.con.cursor_x, cursor_y |-> w.con.cursor_y,
         cattr |-> w.vte.cattr, gl |-> w.vte.gl, gr |-> w.vte.gr,
         wrap_mode |-> "AUTO_WRAP_MODE" \in w.vte.flags,
         origin_mode |-> "ORIGIN_MODE" \in w.vte.flags]]

\* restore_state, last part: GL and GR, then wrap mode and origin mode on
\* the instance and on the screen
restore_modes(w, s) ==
    tsm_screen(
        tsm_screen(
            [w EXCEPT !.vte.gl = s.gl, !.vte.gr = s.gr,
                      !.vte.flags =
                          ((@ \ {"AUTO_WRAP_MODE", "ORIGIN_MODE"})
                              \cup (IF s.wrap_mode
                                    THEN {"AUTO_WRAP_MODE"} ELSE {}))
                              \cup (IF s.origin_mode
                                    THEN {"ORIGIN_MODE"} ELSE {})],
            IF s.wrap_mode THEN "set_flags" ELSE "reset_flags",
            "AUTO_WRAP", 0),
        IF s.origin_mode THEN "set_flags" ELSE "reset_flags",
        "REL_ORIGIN", 0)

\* a restore_state that leaves GL, GR and the two modes as they are
restore_state_no_modes(w) ==
    set_cattr(tsm_screen(w, "move_to", w.vte.saved_state.cursor_x,
                         w.vte.saved_state.cursor_y),
              to_rgb(w.vte, w.vte.saved_state.cattr))

\* restore_state: the cursor, the attribute, then the modes
restore_state(w) ==
    restore_modes(
        set_cattr(tsm_screen(w, "move_to", w.vte.saved_state.cursor_x,
                             w.vte.saved_state.cursor_y),
                  to_rgb(w.vte, w.vte.saved_state.cattr)),
        w.vte.saved_state)

\* tsm_vte_reset, first part: the default flags, the screen reset and its
\* auto-wrap flag
reset_flags(w) ==
    tsm_screen(
        tsm_screen([w EXCEPT !.vte.flags =
                       {"TEXT_CURSOR_MODE", "AUTO_REPEAT_MODE",
                        "SEND_RECEIVE_MODE", "AUTO_WRAP_MODE",
                        "BACKGROUND_COLOR_ERASE_MODE"}],
                   "reset", 0, 0),
        "set_flags", "AUTO_WRAP", 0)

\* a reset that leaves a pending single shift in place
reset_parser_keeps_shift(w) ==
    [w EXCEPT !.vte.mach = [state |-> "START", ch |-> 0],
              !.vte.state = "GROUND",
              !.vte.gl = "g0", !.vte.gr = "g1",
              !.vte.g0 = "unicode_lower",
              !.vte.g1 = "unicode_upper",
              !.vte.g2 = "unicode_lower",
              !.vte.g3 = "unicode_upper",
              !.vte.cattr = to_rgb(w.vte, w.vte.def_attr)]

\* tsm_vte_reset, second part: the decoder, the parser state, the
\* character sets and the current attribute
reset_parser(w) ==
    [w EXCEPT !.vte.mach = [state |-> "START", ch |-> 0],
              !.vte.state = "GROUND",
              !.vte.gl = "g0", !.vte.gr = "g1",
              !.vte.glt = "NULL", !.vte.grt = "NULL",
              !.vte.g0 = "unicode_lower",
              !.vte.g1 = "unicode_upper",
              !.vte.g2 = "unicode_lower",
              !.vte.g3 = "unicode_upper",
              !.vte.cattr = to_rgb(w.vte, w.vte.def_attr)]

\* tsm_vte_reset, third part: the screen's default attribute
reset_def_attr(w) == tsm_screen(w, "set_def_attr", w.vte.def_attr, 0)

\* a reset that also zeroes the re-entry counter
tsm_vte_reset_zeroing(w) ==
    reset_state(reset_def_attr(
        [reset_parser(reset_flags(w)) EXCEPT !.vte.parse_cnt = 0]))

\* tsm_vte_reset: the soft reset
tsm_vte_reset(w) ==
    reset_state(reset_def_attr(reset_parser(reset_flags(w))))

tsm_vte_hard_reset(w) ==
    tsm_screen(tsm_screen(tsm_screen(tsm_vte_reset(w),
        "erase_screen", FALSE, 0), "clear_sb", 0, 0), "move_to", 0, 0)

\* vte_update_palette, first part: the palette the name selects, the
\* default attribute resolved against it and copied to the current one
palette_attrs(w) ==
    [w EXCEPT !.vte.palette = get_palette(w.vte),
              !.vte.def_attr =
                  to_rgb([w.vte EXCEPT !.palette = get_palette(w.vte)],
                         [@ EXCEPT !.fccode = TSM_COLOR_FOREGROUND,
                                   !.bccode = TSM_COLOR_BACKGROUND]),
              !.vte.cattr =
                  to_rgb([w.vte EXCEPT !.palette = get_palette(w.vte)],
                         [w.vte.def_attr
                             EXCEPT !.fccode = TSM_COLOR_FOREGROUND,
                                    !.bccode = TSM_COLOR_BACKGROUND])]

\* vte_update_palette: then the screen's default attribute and an erase
vte_update_palette(w) ==
    tsm_screen(reset_def_attr(palette_attrs(w)), "erase_screen", FALSE, 0)

\* tsm_vte_set_palette: the name ("NULL" for a null pointer) replaces the
\* old one; the return value 0 is left in obs.ret as TRUE
tsm_vte_set_palette(w, palette_name) ==
    vte_update_palette([w EXCEPT !.vte.palette_name = palette_name])

\* tsm_vte_set_custom_palette: the instance keeps its own copy of the
\* table, a sequence of TSM_COLOR_NUM triples (the empty sequence for a
\* null pointer)
tsm_vte_set_custom_palette(w, palette) ==
    vte_update_palette([w EXCEPT !.vte.custom_palette_storage = palette])

\* tsm_vte_set_bell_cb: register the bell callback (FALSE stands for NULL)
tsm_vte_set_bell_cb(w, bell_cb) == [w EXCEPT !.vte.bell_cb = bell_cb]

\* tsm_vte_set_osc_cb: register the OSC callback (FALSE stands for NULL)
tsm_vte_set_osc_cb(w, osc_cb) == [w EXCEPT !.vte.osc_cb = osc_cb]

\* struct tsm_vte after malloc and memset(0)
ZeroVte ==
    [parse_cnt |-> 0, mach |-> [state |-> "START", ch |-> 0],
     state |-> "NONE", csi_argc |-> 0,
     csi_argv |-> [i \in 0..(CSI_ARG_MAX - 1) |-> 0], csi_flags |-> {},
     osc_len |-> 0, osc_arg |-> <<>>, osc_cb |-> FALSE,
     bell_cb |-> FALSE,
     palette_name |-> "NULL", custom_palette_storage |-> <<>>,
     palette |-> "NULL", def_attr |-> ZeroAttr, cattr |-> ZeroAttr,
     flags |-> {},
     gl |-> "NULL", gr |-> "NULL", glt |-> "NULL", grt |-> "NULL",
     g0 |-> "NULL", g1 |-> "NULL", g2 |-> "NULL", g3 |-> "NULL",
     saved_state |-> [cursor_x |-> 0, cursor_y |-> 0, cattr |-> ZeroAttr,
                      gl |-> "NULL", gr |-> "NULL",
                      wrap_mode |-> FALSE, origin_mode |-> FALSE],
     alt_cursor_x |-> 0, alt_cursor_y |-> 0]

\* tsm_vte_new on a fresh screen
tsm_vte_new ==
    LET v1 == [ZeroVte EXCEPT !.palette = get_palette(ZeroVte)]
        v2 == [v1 EXCEPT !.def_attr =
                  to_rgb(v1, [ZeroAttr EXCEPT !.fccode = TSM_COLOR_FOREGROUND,
                                              !.bccode = TSM_COLOR_BACKGROUND])]
        w0 == [vte |-> v2, con |-> NewScreen, obs |-> EmptyObs("new")]
    IN  tsm_screen(tsm_vte_reset(w0), "erase_screen", FALSE, 0)

(* ---------------------------- failing calls ---------------------------- *)
\* an early return with the error e (-EINVAL, -ENOMEM) left in obs.err
fail(w, e) == [w EXCEPT !.obs.err = e, !.obs.ret = FALSE]

\* a tsm_vte_set_palette that frees the old name before it copies the new
set_palette_entry_frees_first(w, inst, palette_name, alloc) ==
    IF ~inst THEN fail(w, "EINVAL")
    ELSE IF palette_name # "NULL" /\ ~alloc
    THEN fail([w EXCEPT !.vte.palette_name = "NULL"], "ENOMEM")
    ELSE tsm_vte_set_palette(w, palette_name)

\* tsm_vte_set_palette from its entry: inst is FALSE for a null instance,
\* alloc is FALSE when strdup returns NULL
set_palette_entry(w, inst, palette_name, alloc) ==
    IF ~inst THEN fail(w, "EINVAL")
    ELSE IF palette_name # "NULL" /\ ~alloc THEN fail(w, "ENOMEM")
    ELSE tsm_vte_set_palette(w, palette_name)

\* tsm_vte_set_custom_palette from its entry: alloc is FALSE when malloc
\* returns NULL
set_custom_palette_entry(w, inst, palette, alloc) ==
    IF ~inst THEN fail(w, "EINVAL")
    ELSE IF palette # <<>> /\ ~alloc THEN fail(w, "ENOMEM")
    ELSE tsm_vte_set_custom_palette(w, palette)

\* tsm_vte_new from its entry: out, scr (the parameter con) and cb (the
\* parameter write_cb) are FALSE for a null pointer, alloc is FALSE when
\* malloc returns NULL; a successful call yields a new instance on its
\* screen
new_entry(w, out, scr, cb, alloc) ==
    IF ~out \/ ~scr \/ ~cb THEN fail(w, "EINVAL")
    ELSE IF ~alloc THEN fail(w, "ENOMEM")
    ELSE tsm_vte_new

\* tsm_vte_input, tsm_vte_reset, tsm_vte_hard_reset and
\* tsm_vte_handle_keyboard called with a null instance
null_instance(w, op) ==
    IF op = "null_keyboard" THEN [w EXCEPT !.obs.ret = FALSE] ELSE w

(* --------------------------- outbound writer --------------------------- *)
RECURSIVE tsm_vte_input(_, _)

\* vte_write_debug after the local echo: w1 is the world the echo left,
\* cnt and echo are parse_cnt and the echo decision on entry.  The ESC
\* prefix if the flag is (still) set, the payload, and the flag cleared.
write_out(w1, u8, cnt, echo) ==
    LET esc == "PREPEND_ESCAPE" \in w1.vte.flags
        w2  == write_cb(IF esc THEN write_cb(w1, <<27>>) ELSE w1, u8)
    IN  [w2 EXCEPT !.vte.flags = @ \ {"PREPEND_ESCAPE"},
                   !.obs.writes = Append(@, [u8 |-> u8, cnt |-> cnt,
                                             echo |-> echo, esc |-> esc])]

\* a writer that echoes even while an input call is in progress
vte_write_debug_reentrant(w, u8) ==
    write_out(IF "SEND_RECEIVE_MODE" \notin w.vte.flags
              THEN tsm_vte_input(
                       IF "PREPEND_ESCAPE" \in w.vte.flags
                       THEN tsm_vte_input(w, <<27>>) ELSE w, u8)
              ELSE w,
              u8, w.vte.parse_cnt,
              "SEND_RECEIVE_MODE" \notin w.vte.flags)

\* a writer that echoes whatever SEND_RECEIVE_MODE is
vte_write_debug_always_echo(w, u8) ==
    write_out(IF w.vte.parse_cnt = 0
              THEN tsm_vte_input(
                       IF "PREPEND_ESCAPE" \in w.vte.flags
                       THEN tsm_vte_input(w, <<27>>) ELSE w, u8)
              ELSE w,
              u8, w.vte.parse_cnt,
              w.vte.parse_cnt = 0)

\* vte_write_debug (the vte_write and vte_write_raw macros): local echo
\* when no input call is in progress and SEND_RECEIVE_MODE is off, then
\* the optional ESC prefix and the payload to the write callback
\* a writer that hands the payload to the callback before it echoes it
vte_write_debug_write_first(w, u8) ==
    IF w.vte.parse_cnt = 0 /\ "SEND_RECEIVE_MODE" \notin w.vte.flags
    THEN tsm_vte_input(write_out(w, u8, w.vte.parse_cnt, TRUE), u8)
    ELSE write_out(w, u8, w.vte.parse_cnt, FALSE)

vte_write_debug(w, u8) ==
    write_out(IF w.vte.parse_cnt = 0 /\ "SEND_RECEIVE_MODE" \notin w.vte.flags
              THEN tsm_vte_input(
                       IF "PREPEND_ESCAPE" \in w.vte.flags
                       THEN tsm_vte_input(w, <<27>>) ELSE w, u8)
              ELSE w,
              u8, w.vte.parse_cnt,
              w.vte.parse_cnt = 0 /\ "SEND_RECEIVE_MODE" \notin w.vte.flags)

send_primary_da(w) ==
    vte_write_debug(w, <<27, 91, 63, 54, 48, 59, 49, 59, 54, 59, 57, 59,
                         49, 53, 99>>)

(* ------------------------- parser action handlers ---------------------- *)
\* do_execute: a C0 or C1 control character
do_execute(w, ctrl) ==
    CASE ctrl = 5 -> vte_write_debug(w, <<6>>)
      [] ctrl = 7 -> IF w.vte.bell_cb THEN [w EXCEPT !.obs.bell = @ + 1]
                     ELSE w
      [] ctrl = 8 -> tsm_screen(w, "move_left", 1, 0)
      [] ctrl = 9 -> tsm_screen(w, "tab_right", 1, 0)
      [] ctrl \in {10, 11, 12} ->
           IF "LINE_FEED_NEW_LINE_MODE" \in w.vte.flags
           THEN tsm_screen(w, "newline", 0, 0)
           ELSE tsm_screen(w, "move_down", 1, TRUE)
      [] ctrl = 13 -> tsm_screen(w, "move_line_home", 0, 0)
      [] ctrl = 14 -> [w EXCEPT !.vte.gl = "g1"]
      [] ctrl = 15 -> [w EXCEPT !.vte.gl = "g0"]
      [] ctrl = 26 -> write_console(w, 191)
      [] ctrl = 132 -> tsm_screen(w, "move_down", 1, TRUE)
      [] ctrl = 133 -> tsm_screen(w, "newline", 0, 0)
      [] ctrl = 136 -> tsm_screen(w, "set_tabstop", 0, 0)
      [] ctrl = 141 -> tsm_screen(w, "move_up", 1, TRUE)
      [] ctrl = 142 -> [w EXCEPT !.vte.glt = "g2"]
      [] ctrl = 143 -> [w EXCEPT !.vte.glt = "g3"]
      [] ctrl = 154 -> send_primary_da(w)
      [] OTHER -> w

do_clear(w) ==
    [w EXCEPT !.vte.csi_argc = 0,
              !.vte.csi_argv = [i \in 0..(CSI_ARG_MAX - 1) |-> -1],
              !.vte.csi_flags = {},
              !.vte.osc_len = 0,
              !.vte.osc_arg = <<>>]

\* the CSI_* flag bit an intermediate byte sets ("" for a byte with none)
csi_flag_of(data) ==
    CASE data = 33 -> "BANG"   [] data = 36 -> "CASH"   [] data = 63 -> "WHAT"
      [] data = 62 -> "GT"     [] data = 32 -> "SPACE"  [] data = 39 -> "SQUOTE"
      [] data = 34 -> "DQUOTE" [] data = 42 -> "MULT"   [] data = 43 -> "PLUS"
      [] data = 40 -> "POPEN"  [] data = 41 -> "PCLOSE" [] OTHER -> ""

\* a do_collect in which a byte outside the recognised set counts as '!'
do_collect_flags_unknown(w, data) ==
    [w EXCEPT !.vte.csi_flags =
        @ \cup {IF csi_flag_of(data) = "" THEN "BANG" ELSE csi_flag_of(data)}]

do_collect(w, data) ==
    IF csi_flag_of(data) = "" THEN w
    ELSE [w EXCEPT !.vte.csi_flags = @ \cup {csi_flag_of(data)}]

\* a do_param whose ';' advances the parameter index without saturating
do_param_unsaturated(w, data) ==
    LET v == w.vte IN
    IF data = 59 THEN [w EXCEPT !.vte.csi_argc = @ + 1]
    ELSE IF v.csi_argc >= CSI_ARG_MAX THEN w
    ELSE IF v.csi_argv[v.csi_argc] > 65535 THEN w
    ELSE IF data >= 48 /\ data <= 57
    THEN LET old == v.csi_argv[v.csi_argc]
             new == IF old <= 0 THEN data - 48 ELSE old * 10 + data - 48
         IN  [w EXCEPT !.vte.csi_argv[v.csi_argc] = new]
    ELSE w

\* a do_param that treats the absent-parameter sentinel as a number
do_param_no_sentinel(w, data) ==
    LET v == w.vte IN
    IF data = 59
    THEN (IF v.csi_argc < CSI_ARG_MAX
          THEN [w EXCEPT !.vte.csi_argc = @ + 1] ELSE w)
    ELSE IF v.csi_argc >= CSI_ARG_MAX THEN w
    ELSE IF v.csi_argv[v.csi_argc] > 65535 THEN w
    ELSE IF data >= 48 /\ data <= 57
    THEN [w EXCEPT !.vte.csi_argv[v.csi_argc] = @ * 10 + data - 48]
    ELSE w

do_param(w, data) ==
    LET v == w.vte IN
    IF data = 59
    THEN (IF v.csi_argc < CSI_ARG_MAX
          THEN [w EXCEPT !.vte.csi_argc = @ + 1] ELSE w)
    ELSE IF v.csi_argc >= CSI_ARG_MAX THEN w
    ELSE IF v.csi_argv[v.csi_argc] > 65535 THEN w
    ELSE IF data >= 48 /\ data <= 57
    THEN LET old == v.csi_argv[v.csi_argc]
             new == IF old <= 0 THEN data - 48 ELSE old * 10 + data - 48
         IN  [w EXCEPT !.vte.csi_argv[v.csi_argc] = new]
    ELSE w

\* set_charset: the G-set slot the intermediate flag names, "" for none
set_charset_slot(v) ==
    CASE "POPEN" \in v.csi_flags -> "g0"
      [] "PCLOSE" \in v.csi_flags -> "g1"
      [] "MULT" \in v.csi_flags -> "g2"
      [] "PLUS" \in v.csi_flags -> "g3"
      [] OTHER -> ""

set_charset(w, set) ==
    CASE set_charset_slot(w.vte) = "g0" -> [w EXCEPT !.vte.g0 = set]
      [] set_charset_slot(w.vte) = "g1" -> [w EXCEPT !.vte.g1 = set]
      [] set_charset_slot(w.vte) = "g2" -> [w EXCEPT !.vte.g2 = set]
      [] set_charset_slot(w.vte) = "g3" -> [w EXCEPT !.vte.g3 = set]
      [] OTHER -> w

\* the character set the first switch of do_esc maps a final byte to
esc_charset(data) ==
    CASE data = 66 -> "unicode_lower"
      [] data = 60 -> "dec_supplemental_graphics"
      [] data = 48 -> "dec_special_graphics"
      [] data \in {65, 52, 67, 53, 82, 81, 75, 89, 69, 54, 90, 72, 55, 61} ->
           "unicode_upper"
      [] OTHER -> ""

do_esc(w, data) ==
    IF esc_charset(data) # "" /\ set_charset_slot(w.vte) # ""
    THEN set_charset(w, esc_charset(data))
    ELSE IF data = 70 /\ "SPACE" \in w.vte.csi_flags
    THEN [w EXCEPT !.vte.flags = @ \ {"USE_C1"}]
    ELSE IF data = 71 /\ "SPACE" \in w.vte.csi_flags
    THEN [w EXCEPT !.vte.flags = @ \cup {"USE_C1"}]
    ELSE IF w.vte.csi_flags # {} THEN w
    ELSE CASE data = 68 -> tsm_screen(w, "move_down", 1, TRUE)
           [] data = 69 -> tsm_screen(w, "newline", 0, 0)
           [] data = 72 -> tsm_screen(w, "set_tabstop", 0, 0)
           [] data = 77 -> tsm_screen(w, "move_up", 1, TRUE)
           [] data = 78 -> [w EXCEPT !.vte.glt = "g2"]
           [] data = 79 -> [w EXCEPT !.vte.glt = "g3"]
           [] data = 90 -> send_primary_da(w)
           [] data = 126 -> [w EXCEPT !.vte.gr = "g1"]
           [] data = 110 -> [w EXCEPT !.vte.gl = "g2"]
           [] data = 125 -> [w EXCEPT !.vte.gr = "g2"]
           [] data = 111 -> [w EXCEPT !.vte.gl = "g3"]
           [] data = 124 -> [w EXCEPT !.vte.gr = "g3"]
           [] data = 61 ->
                [w EXCEPT !.vte.flags = @ \cup {"KEYPAD_APPLICATION_MODE"}]
           [] data = 62 ->
                [w EXCEPT !.vte.flags = @ \ {"KEYPAD_APPLICATION_MODE"}]
           [] data = 99 -> tsm_vte_hard_reset(w)
           [] data = 55 -> save_state(w)
           [] data = 56 -> restore_state(w)
           [] OTHER -> w

(* ------------------------------ CSI handlers --------------------------- *)
\* the numeric value of the csi_flags word (the CSI_* bits of the source)
csi_flag_bit(f) ==
    CASE f = "BANG" -> 1     [] f = "CASH" -> 2     [] f = "WHAT" -> 4
      [] f = "GT" -> 8       [] f = "SPACE" -> 16   [] f = "SQUOTE" -> 32
      [] f = "DQUOTE" -> 64  [] f = "MULT" -> 128   [] f = "PLUS" -> 256
      [] f = "POPEN" -> 512  [] f = "PCLOSE" -> 1024

RECURSIVE csi_flags_word(_)
csi_flags_word(fs) ==
    IF fs = {} THEN 0
    ELSE LET f == CHOOSE x \in fs : TRUE
         IN  csi_flag_bit(f) + csi_flags_word(fs \ {f})

\* csi_argv[i] as csi_attribute reads it: index CSI_ARG_MAX is one past the
\* array, where the structure holds the csi_flags word
csi_argv_at(v, i) ==
    IF i < CSI_ARG_MAX THEN v.csi_argv[i] ELSE csi_flags_word(v.csi_flags)

\* the six intensities of the 6x6x6 colour cube (bval)
bval == <<0, 95, 135, 175, 215, 255>>

\* an extended colour whose cube index is read blue first
sgr_extended_blue_first(v, i) ==
    IF csi_argv_at(v, i + 1) = 5
    THEN IF i + 2 >= v.csi_argc \/ v.csi_argv[i + 2] < 0
         THEN [ok |-> FALSE, code |-> 0, r |-> 0, g |-> 0, b |-> 0, skip |-> 0]
         ELSE LET code == v.csi_argv[i + 2] IN
              IF code < 16
              THEN [ok |-> TRUE, code |-> code, r |-> 0, g |-> 0, b |-> 0,
                    skip |-> 2]
              ELSE IF code < 232
              THEN [ok |-> TRUE, code |-> -1,
                    r |-> bval[((code - 16) % 6) + 1],
                    g |-> bval[(((code - 16) \div 6) % 6) + 1],
                    b |-> bval[(((code - 16) \div 36) % 6) + 1], skip |-> 2]
              ELSE LET grey == (((code - 232) * 10) + 8) % 256
                   IN  [ok |-> TRUE, code |-> -1, r |-> grey, g |-> grey,
                        b |-> grey, skip |-> 2]
    ELSE IF csi_argv_at(v, i + 1) = 2
    THEN IF i + 4 >= v.csi_argc \/ v.csi_argv[i + 2] < 0
            \/ v.csi_argv[i + 3] < 0 \/ v.csi_argv[i + 4] < 0
         THEN [ok |-> FALSE, code |-> 0, r |-> 0, g |-> 0, b |-> 0, skip |-> 0]
         ELSE [ok |-> TRUE, code |-> -1, r |-> v.csi_argv[i + 2] % 256,
               g |-> v.csi_argv[i + 3] % 256, b |-> v.csi_argv[i + 4] % 256,
               skip |-> 4]
    ELSE [ok |-> FALSE, code |-> 0, r |-> 0, g |-> 0, b |-> 0, skip |-> 0]

\* a direct colour that consumes only the mode and the red component
sgr_extended_skip_red(v, i) ==
    IF csi_argv_at(v, i + 1) = 5
    THEN IF i + 2 >= v.csi_argc \/ v.csi_argv[i + 2] < 0
         THEN [ok |-> FALSE, code |-> 0, r |-> 0, g |-> 0, b |-> 0, skip |-> 0]
         ELSE LET code == v.csi_argv[i + 2] IN
              IF code < 16
              THEN [ok |-> TRUE, code |-> code, r |-> 0, g |-> 0, b |-> 0,
                    skip |-> 2]
              ELSE IF code < 232
              THEN [ok |-> TRUE, code |-> -1,
                    r |-> bval[(((code - 16) \div 36) % 6) + 1],
                    g |-> bval[(((code - 16) \div 6) % 6) + 1],
                    b |-> bval[((code - 16) % 6) + 1], skip |-> 2]
              ELSE LET grey == (((code - 232) * 10) + 8) % 256
                   IN  [ok |-> TRUE, code |-> -1, r |-> grey, g |-> grey,
                        b |-> grey, skip |-> 2]
    ELSE IF csi_argv_at(v, i + 1) = 2
    THEN IF i + 4 >= v.csi_argc \/ v.csi_argv[i + 2] < 0
            \/ v.csi_argv[i + 3] < 0 \/ v.csi_argv[i + 4] < 0
         THEN [ok |-> FALSE, code |-> 0, r |-> 0, g |-> 0, b |-> 0, skip |-> 0]
         ELSE [ok |-> TRUE, code |-> -1, r |-> v.csi_argv[i + 2] % 256,
               g |-> v.csi_argv[i + 3] % 256, b |-> v.csi_argv[i + 4] % 256,
               skip |-> 2]
    ELSE [ok |-> FALSE, code |-> 0, r |-> 0, g |-> 0, b |-> 0, skip |-> 0]

\* the colour an extended-colour SGR (38/48 ; 5 ; n  or  38/48 ; 2 ; r;g;b)
\* selects at index i: ok, the code, the rgb triple and the index skip
sgr_extended(v, i) ==
    IF csi_argv_at(v, i + 1) = 5
    THEN IF i + 2 >= v.csi_argc \/ v.csi_argv[i + 2] < 0
         THEN [ok |-> FALSE, code |-> 0, r |-> 0, g |-> 0, b |-> 0, skip |-> 0]
         ELSE LET code == v.csi_argv[i + 2] IN
              IF code < 16
              THEN [ok |-> TRUE, code |-> code, r |-> 0, g |-> 0, b |-> 0,
                    skip |-> 2]
              ELSE IF code < 232
              THEN [ok |-> TRUE, code |-> -1,
                    r |-> bval[(((code - 16) \div 36) % 6) + 1],
                    g |-> bval[(((code - 16) \div 6) % 6) + 1],
                    b |-> bval[((code - 16) % 6) + 1], skip |-> 2]
              ELSE LET grey == (((code - 232) * 10) + 8) % 256
                   IN  [ok |-> TRUE, code |-> -1, r |-> grey, g |-> grey,
                        b |-> grey, skip |-> 2]
    ELSE IF csi_argv_at(v, i + 1) = 2
    THEN IF i + 4 >= v.csi_argc \/ v.csi_argv[i + 2] < 0
            \/ v.csi_argv[i + 3] < 0 \/ v.csi_argv[i + 4] < 0
         THEN [ok |-> FALSE, code |-> 0, r |-> 0, g |-> 0, b |-> 0, skip |-> 0]
         ELSE [ok |-> TRUE, code |-> -1, r |-> v.csi_argv[i + 2] % 256,
               g |-> v.csi_argv[i + 3] % 256, b |-> v.csi_argv[i + 4] % 256,
               skip |-> 4]
    ELSE [ok |-> FALSE, code |-> 0, r |-> 0, g |-> 0, b |-> 0, skip |-> 0]

\* a reset code that clears the five renditions and keeps the colours
sgr_reset_keeps_colours(v, a) ==
    [a EXCEPT !.bold = 0, !.italic = 0, !.underline = 0, !.inverse = 0,
              !.blink = 0]

\* case 0 of the switch of csi_attribute: the colours of the default
\* attribute, and bold, italic, underline, inverse and blink cleared
sgr_reset(v, a) ==
    [copy_bcolor(copy_fcolor(a, v.def_attr), v.def_attr)
        EXCEPT !.bold = 0, !.italic = 0, !.underline = 0, !.inverse = 0,
               !.blink = 0]

\* one case of the switch of csi_attribute applied to the attribute
sgr_case(v, a, i) ==
    LET p == v.csi_argv[i]
        e == sgr_extended(v, i)
    IN  CASE p = 0 -> sgr_reset(v, a)
          [] p = 1 -> [a EXCEPT !.bold = 1]
          [] p = 3 -> [a EXCEPT !.italic = 1]
          [] p = 4 -> [a EXCEPT !.underline = 1]
          [] p = 5 -> [a EXCEPT !.blink = 1]
          [] p = 7 -> [a EXCEPT !.inverse = 1]
          [] p = 22 -> [a EXCEPT !.bold = 0]
          [] p = 23 -> [a EXCEPT !.italic = 0]
          [] p = 24 -> [a EXCEPT !.underline = 0]
          [] p = 25 -> [a EXCEPT !.blink = 0]
          [] p = 27 -> [a EXCEPT !.inverse = 0]
          [] p >= 30 /\ p <= 37 -> [a EXCEPT !.fccode = p - 30]
          [] p = 39 -> copy_fcolor(a, v.def_attr)
          [] p >= 40 /\ p <= 47 -> [a EXCEPT !.bccode = p - 40]
          [] p = 49 -> copy_bcolor(a, v.def_attr)
          [] p >= 90 /\ p <= 97 -> [a EXCEPT !.fccode = p - 90 + 8]
          [] p >= 100 /\ p <= 107 -> [a EXCEPT !.bccode = p - 100 + 8]
          [] p = 38 /\ e.ok ->
               [a EXCEPT !.fccode = e.code, !.fr = e.r, !.fg = e.g, !.fb = e.b]
          [] p = 48 /\ e.ok ->
               [a EXCEPT !.bccode = e.code, !.br = e.r, !.bg = e.g, !.bb = e.b]
          [] OTHER -> a

\* a loop in which an invalid extended colour still consumes its selector
RECURSIVE sgr_loop_eats_selector(_, _, _)
sgr_loop_eats_selector(v, a, i) ==
    IF i >= v.csi_argc THEN a
    ELSE LET skip == IF v.csi_argv[i] \in {38, 48}
                     THEN IF sgr_extended(v, i).ok
                          THEN sgr_extended(v, i).skip ELSE 1
                     ELSE 0
         IN  sgr_loop_eats_selector(v, sgr_case(v, a, i), i + skip + 1)

\* the for loop of csi_attribute from index i on
RECURSIVE sgr_loop(_, _, _)
sgr_loop(v, a, i) ==
    IF i >= v.csi_argc THEN a
    ELSE LET skip == IF v.csi_argv[i] \in {38, 48}
                     THEN sgr_extended(v, i).skip ELSE 0
         IN  sgr_loop(v, sgr_case(v, a, i), i + skip + 1)

\* the indices of csi_argv the switch of csi_attribute reads for the item
\* at index i: the item, for 38 and 48 the selector at i + 1, and the
\* components the bounds test and the short-circuit of || let through
sgr_reads(v, i) ==
    {i} \cup
    (IF v.csi_argv[i] \notin {38, 48} THEN {}
     ELSE {i + 1} \cup
          (IF csi_argv_at(v, i + 1) = 5 /\ i + 2 < v.csi_argc THEN {i + 2}
           ELSE IF csi_argv_at(v, i + 1) = 2 /\ i + 4 < v.csi_argc
           THEN {i + 2}
                \cup (IF v.csi_argv[i + 2] >= 0 THEN {i + 3} ELSE {})
                \cup (IF v.csi_argv[i + 2] >= 0 /\ v.csi_argv[i + 3] >= 0
                      THEN {i + 4} ELSE {})
           ELSE {}))

\* the indices read by the for loop of csi_attribute from index i on
RECURSIVE sgr_loop_reads(_, _)
sgr_loop_reads(v, i) ==
    IF i >= v.csi_argc THEN {}
    ELSE sgr_reads(v, i)
         \cup sgr_loop_reads(v, i + 1 + (IF v.csi_argv[i] \in {38, 48}
                                         THEN sgr_extended(v, i).skip ELSE 0))

\* a csi_attribute that leaves the colour codes unresolved
sgr_apply_unresolved(w) ==
    set_cattr(w, sgr_loop(w.vte, w.vte.cattr, 0))

\* csi_attribute after the default parameter was supplied
sgr_apply(w) ==
    set_cattr(w, to_rgb(w.vte, sgr_loop(w.vte, w.vte.cattr, 0)))

csi_attribute(w) ==
    sgr_apply(IF w.vte.csi_argc <= 1 /\ w.vte.csi_argv[0] = -1
              THEN [w EXCEPT !.vte.csi_argc = 1, !.vte.csi_argv[0] = 0]
              ELSE w)

csi_soft_reset(w) == tsm_vte_reset(w)

\* csi_compat_mode after its soft reset: the compatibility level asked for
compat_level(w) ==
    IF w.vte.csi_argv[0] = 61
    THEN [w EXCEPT !.vte.flags = @ \cup {"7BIT_MODE"},
                   !.vte.g0 = "unicode_lower",
                   !.vte.g1 = "dec_supplemental_graphics"]
    ELSE IF w.vte.csi_argv[0] \in {62, 63, 64}
    THEN [w EXCEPT !.vte.flags =
                       (IF w.vte.csi_argv[1] \in {1, 2}
                        THEN @ \cup {"USE_C1"} ELSE @) \cup {"8BIT_MODE"},
                   !.vte.g0 = "unicode_lower",
                   !.vte.g1 = "dec_supplemental_graphics"]
    ELSE w

csi_compat_mode(w) == compat_level(csi_soft_reset(w))

set_reset_flag(w, set, flag) ==
    IF set THEN [w EXCEPT !.vte.flags = @ \cup {flag}]
    ELSE [w EXCEPT !.vte.flags = @ \ {flag}]

\* set_reset_flag followed by the matching screen flag update
\* a mode switch that forgets the screen flag
mode_without_screen(w, set, flag, scrflag) == set_reset_flag(w, set, flag)

\* a mode bit and the screen flag it drives, switched together
mode_with_screen(w, set, flag, scrflag) ==
    tsm_screen(set_reset_flag(w, set, flag),
               IF set THEN "set_flags" ELSE "reset_flags", scrflag, 0)

\* a mode 1049 that comes back to the cursor DECSC saved
alt_screen_saved_cursor(w, set) ==
    IF set
    THEN tsm_screen(tsm_screen(
             [w EXCEPT !.vte.alt_cursor_x = w.con.cursor_x,
                       !.vte.alt_cursor_y = w.con.cursor_y],
             "set_flags", "ALTERNATE", 0),
             "erase_screen", FALSE, 0)
    ELSE tsm_screen(tsm_screen(w, "reset_flags", "ALTERNATE", 0),
                    "move_to", w.vte.saved_state.cursor_x,
                    w.vte.saved_state.cursor_y)

\* case 1049 of csi_mode: set captures the cursor, switches to the
\* alternate buffer and erases it; reset switches back and moves the
\* cursor to the captured position
alt_screen_cursor(w, set) ==
    IF set
    THEN tsm_screen(tsm_screen(
             [w EXCEPT !.vte.alt_cursor_x = w.con.cursor_x,
                       !.vte.alt_cursor_y = w.con.cursor_y],
             "set_flags", "ALTERNATE", 0),
             "erase_screen", FALSE, 0)
    ELSE tsm_screen(tsm_screen(w, "reset_flags", "ALTERNATE", 0),
                    "move_to", w.vte.alt_cursor_x,
                    w.vte.alt_cursor_y)

\* one iteration of the loop of csi_mode, for parameter index i
csi_mode_case(w, set, i) ==
    LET p    == w.vte.csi_argv[i]
        tite == "TITE_INHIBIT_MODE" \in w.vte.flags
    IN  IF "WHAT" \notin w.vte.csi_flags
        THEN CASE p = 2 -> set_reset_flag(w, set, "KEYBOARD_ACTION_MODE")
               [] p = 4 -> mode_with_screen(w, set, "INSERT_REPLACE_MODE",
                                            "INSERT_MODE")
               [] p = 12 -> set_reset_flag(w, set, "SEND_RECEIVE_MODE")
               [] p = 20 -> set_reset_flag(w, set, "LINE_FEED_NEW_LINE_MODE")
               [] OTHER -> w
        ELSE CASE p = 1 -> set_reset_flag(w, set, "CURSOR_KEY_MODE")
               [] p = 5 -> mode_with_screen(w, set, "INVERSE_SCREEN_MODE",
                                            "INVERSE")
               [] p = 6 -> mode_with_screen(w, set, "ORIGIN_MODE", "REL_ORIGIN")
               [] p = 7 -> mode_with_screen(w, set, "AUTO_WRAP_MODE",
                                            "AUTO_WRAP")
               [] p = 8 -> set_reset_flag(w, set, "AUTO_REPEAT_MODE")
               [] p = 25 ->
                    tsm_screen(set_reset_flag(w, set, "TEXT_CURSOR_MODE"),
                               IF set THEN "reset_flags" ELSE "set_flags",
                               "HIDE_CURSOR", 0)
               [] p = 42 -> set_reset_flag(w, set, "NATIONAL_CHARSET_MODE")
               [] p = 47 /\ ~tite ->
                    tsm_screen(w, IF set THEN "set_flags" ELSE "reset_flags",
                               "ALTERNATE", 0)
               [] p = 1047 /\ ~tite ->
                    IF set THEN tsm_screen(w, "set_flags", "ALTERNATE", 0)
                    ELSE tsm_screen(tsm_screen(w, "erase_screen", FALSE, 0),
                                    "reset_flags", "ALTERNATE", 0)
               [] p = 1048 /\ ~tite ->
                    IF set
                    THEN [w EXCEPT !.vte.alt_cursor_x = w.con.cursor_x,
                                   !.vte.alt_cursor_y = w.con.cursor_y]
                    ELSE tsm_screen(w, "move_to", w.vte.alt_cursor_x,
                                    w.vte.alt_cursor_y)
               [] p = 1049 /\ ~tite -> alt_screen_cursor(w, set)
               [] OTHER -> w

RECURSIVE csi_mode_loop(_, _, _)
csi_mode_loop(w, set, i) ==
    IF i >= w.vte.csi_argc THEN w
    ELSE csi_mode_loop(csi_mode_case(w, set, i), set, i + 1)

csi_mode(w, set) == csi_mode_loop(w, set, 0)

csi_dev_attr(w) ==
    IF w.vte.csi_argc <= 1 /\ w.vte.csi_argv[0] <= 0
    THEN IF w.vte.csi_flags = {} THEN send_primary_da(w)
         ELSE IF "GT" \in w.vte.csi_flags
         THEN vte_write_debug(w, <<27, 91, 62, 49, 59, 49, 59, 48, 99>>)
         ELSE w
    ELSE w

\* the decimal digits of n as snprintf("%u") prints them
RECURSIVE Decimal(_)
Decimal(n) ==
    IF n < 10 THEN <<48 + n>> ELSE Append(Decimal(n \div 10), 48 + (n % 10))

\* a cursor report with the column first
csi_dsr_column_first(w) ==
    IF w.vte.csi_argv[0] = 5 THEN vte_write_debug(w, <<27, 91, 48, 110>>)
    ELSE IF w.vte.csi_argv[0] = 6
    THEN vte_write_debug(w, <<27, 91>> \o Decimal(w.con.cursor_x + 1)
                            \o <<59>> \o Decimal(w.con.cursor_y + 1) \o <<82>>)
    ELSE w

\* csi_dsr: the status report for 5, the cursor position report for 6
csi_dsr(w) ==
    IF w.vte.csi_argv[0] = 5 THEN vte_write_debug(w, <<27, 91, 48, 110>>)
    ELSE IF w.vte.csi_argv[0] = 6
    THEN vte_write_debug(w, <<27, 91>> \o Decimal(w.con.cursor_y + 1)
                            \o <<59>> \o Decimal(w.con.cursor_x + 1) \o <<82>>)
    ELSE w

\* a numeric parameter with the default 1 for absent or zero
num_or_1(n) == IF n <= 0 THEN 1 ELSE n

do_csi(w0, data) ==
    LET w  == IF w0.vte.csi_argc < CSI_ARG_MAX
              THEN [w0 EXCEPT !.vte.csi_argc = @ + 1] ELSE w0
        a0 == w.vte.csi_argv[0]
        a1 == w.vte.csi_argv[1]
        num == num_or_1(a0)
        fl == w.vte.csi_flags
        protect == "WHAT" \in fl
    IN  CASE data = 65 -> tsm_screen(w, "move_up", num, FALSE)
          [] data = 66 -> tsm_screen(w, "move_down", num, FALSE)
          [] data = 67 -> tsm_screen(w, "move_right", num, 0)
          [] data = 68 -> tsm_screen(w, "move_left", num, 0)
          [] data = 100 -> tsm_screen(w, "move_to", w.con.cursor_x, num - 1)
          [] data = 101 ->
               tsm_screen(w, "move_to", w.con.cursor_x, w.con.cursor_y + num)
          [] data \in {72, 102} ->
               tsm_screen(w, "move_to", num_or_1(a1) - 1, num - 1)
          [] data = 71 -> tsm_screen(w, "move_to", num - 1, w.con.cursor_y)
          [] data = 74 ->
               IF a0 <= 0 THEN tsm_screen(w, "erase_cursor_to_screen", protect, 0)
               ELSE IF a0 = 1
               THEN tsm_screen(w, "erase_screen_to_cursor", protect, 0)
               ELSE IF a0 = 2 THEN tsm_screen(w, "erase_screen", protect, 0)
               ELSE w
          [] data = 75 ->
               IF a0 <= 0 THEN tsm_screen(w, "erase_cursor_to_end", protect, 0)
               ELSE IF a0 = 1
               THEN tsm_screen(w, "erase_home_to_cursor", protect, 0)
               ELSE IF a0 = 2
               THEN tsm_screen(w, "erase_current_line", protect, 0)
               ELSE w
          [] data = 88 -> tsm_screen(w, "erase_chars", num, 0)
          [] data = 109 -> IF "GT" \in fl THEN w ELSE csi_attribute(w)
          [] data = 112 ->
               IF "GT" \in fl THEN csi_soft_reset(w)
               ELSE IF "BANG" \in fl THEN csi_soft_reset(w)
               ELSE IF "CASH" \in fl
               THEN (IF "WHAT" \in fl THEN w ELSE csi_soft_reset(w))
               ELSE csi_compat_mode(w)
          [] data = 104 -> csi_mode(w, TRUE)
          [] data = 108 -> csi_mode(w, FALSE)
          [] data = 114 ->
               tsm_screen(w, "set_margins", Max(a0, 0), Max(a1, 0))
          [] data = 99 -> csi_dev_attr(w)
          [] data = 76 -> tsm_screen(w, "insert_lines", num, 0)
          [] data = 77 -> tsm_screen(w, "delete_lines", num, 0)
          [] data = 103 ->
               IF a0 <= 0 THEN tsm_screen(w, "reset_tabstop", 0, 0)
               ELSE IF a0 = 3 THEN tsm_screen(w, "reset_all_tabstops", 0, 0)
               ELSE w
          [] data = 64 -> tsm_screen(w, "insert_chars", num, 0)
          [] data = 80 -> tsm_screen(w, "delete_chars", num, 0)
          [] data = 90 -> tsm_screen(w, "tab_left", num, 0)
          [] data = 73 -> tsm_screen(w, "tab_right", num, 0)
          [] data = 110 -> csi_dsr(w)
          [] data = 83 -> tsm_screen(w, "scroll_up", num, 0)
          [] data = 84 -> tsm_screen(w, "scroll_down", num, 0)
          [] OTHER -> w

(* --------------------------- character mapping ------------------------- *)
\* the table a G-set slot ("g0".."g3") of the instance points at
gset_table(v, slot) ==
    CASE slot = "g0" -> v.g0 [] slot = "g1" -> v.g1
      [] slot = "g2" -> v.g2 [] slot = "g3" -> v.g3

\* a lookup that leaves a pending single shift in place
vte_map_shift_kept(w, val) ==
    IF val >= 33 /\ val <= 126
    THEN [val |-> charset_entry(gset_table(w.vte,
                      IF w.vte.glt # "NULL" THEN w.vte.glt ELSE w.vte.gl),
                      val - 32),
          w |-> w]
    ELSE IF val >= 161 /\ val <= 254
    THEN [val |-> charset_entry(gset_table(w.vte,
                      IF w.vte.grt # "NULL" THEN w.vte.grt ELSE w.vte.gr),
                      val - 160),
          w |-> w]
    ELSE [val |-> val, w |-> w]

\* vte_map: the mapped value and the instance after the lookup (a pending
\* single shift is consumed only by a value the switch has a case for)
vte_map(w, val) ==
    IF val >= 33 /\ val <= 126
    THEN IF w.vte.glt # "NULL"
         THEN [val |-> charset_entry(gset_table(w.vte, w.vte.glt), val - 32),
               w |-> [w EXCEPT !.vte.glt = "NULL"]]
         ELSE [val |-> charset_entry(gset_table(w.vte, w.vte.gl), val - 32),
               w |-> w]
    ELSE IF val >= 161 /\ val <= 254
    THEN IF w.vte.grt # "NULL"
         THEN [val |-> charset_entry(gset_table(w.vte, w.vte.grt), val - 160),
               w |-> [w EXCEPT !.vte.grt = "NULL"]]
         ELSE [val |-> charset_entry(gset_table(w.vte, w.vte.gr), val - 160),
               w |-> w]
    ELSE [val |-> val, w |-> w]

(* ------------------------------- OSC ----------------------------------- *)
\* a collect that stores as many bytes of the encoding as still fit
do_osc_collect_truncating(w, val) ==
    LET buf == tsm_ucs4_to_utf8(val)
        n == Min(Len(buf), OSC_MAX_LEN - 1 - w.vte.osc_len)
    IN  [w EXCEPT !.vte.osc_arg = @ \o SubSeq(buf, 1, n),
                  !.vte.osc_len = @ + n]

\* a do_osc_collect that takes nothing more once a codepoint did not fit
do_osc_collect_closing(w, val) ==
    LET buf == tsm_ucs4_to_utf8(val) IN
    IF w.vte.osc_len + Len(buf) > OSC_MAX_LEN - 1
    THEN [w EXCEPT !.vte.osc_len = OSC_MAX_LEN - 1]
    ELSE [w EXCEPT !.vte.osc_arg = @ \o buf,
                   !.vte.osc_len = @ + Len(buf)]

\* do_osc_collect: append the UTF-8 bytes of the codepoint to osc_arg
\* unless they would leave no room for the terminating NUL
do_osc_collect(w, val) ==
    LET buf == tsm_ucs4_to_utf8(val) IN
    IF w.vte.osc_len + Len(buf) > OSC_MAX_LEN - 1 THEN w
    ELSE [w EXCEPT !.vte.osc_arg = @ \o buf,
                   !.vte.osc_len = @ + Len(buf)]

do_osc_end(w) ==
    IF ~w.vte.osc_cb THEN w
    ELSE [w EXCEPT !.obs.osc = Append(@, w.vte.osc_arg)]

(* --------------------------- parser machinery -------------------------- *)
\* a do_action whose DCS passthrough executes what it is handed
do_action_dcs_executes(w0, data, action) ==
    IF action = "NONE" THEN w0
    ELSE LET w == [w0 EXCEPT !.obs.acts =
                       Append(@, [act |-> action, data |-> data])]
         IN  CASE action = "PRINT" ->
                    write_console(vte_map(w, data).w,
                                  tsm_symbol_make(vte_map(w, data).val))
               [] action \in {"EXECUTE", "DCS_COLLECT"} -> do_execute(w, data)
               [] action = "CLEAR" -> do_clear(w)
               [] action = "COLLECT" -> do_collect(w, data)
               [] action = "PARAM" -> do_param(w, data)
               [] action = "ESC_DISPATCH" -> do_esc(w, data)
               [] action = "CSI_DISPATCH" -> do_csi(w, data)
               [] action = "OSC_START" -> do_clear(w)
               [] action = "OSC_COLLECT" -> do_osc_collect(w, data)
               [] action = "OSC_END" -> do_osc_end(w)
               [] OTHER -> w

\* do_action: perform one parser action; every action other than NONE is
\* logged in obs.acts in the order performed
do_action(w0, data, action) ==
    IF action = "NONE" THEN w0
    ELSE LET w == [w0 EXCEPT !.obs.acts =
                       Append(@, [act |-> action, data |-> data])]
         IN  CASE action = "PRINT" ->
                    write_console(vte_map(w, data).w,
                                  tsm_symbol_make(vte_map(w, data).val))
               [] action = "EXECUTE" -> do_execute(w, data)
               [] action = "CLEAR" -> do_clear(w)
               [] action = "COLLECT" -> do_collect(w, data)
               [] action = "PARAM" -> do_param(w, data)
               [] action = "ESC_DISPATCH" -> do_esc(w, data)
               [] action = "CSI_DISPATCH" -> do_csi(w, data)
               [] action = "OSC_START" -> do_clear(w)
               [] action = "OSC_COLLECT" -> do_osc_collect(w, data)
               [] action = "OSC_END" -> do_osc_end(w)
               [] OTHER -> w

\* an entry table in which entering OSC_STRING clears nothing
entry_action_no_osc_start(state) ==
    CASE state \in {"CSI_ENTRY", "DCS_ENTRY", "ESC"} -> "CLEAR"
      [] state = "DCS_PASS" -> "DCS_START"
      [] OTHER -> "NONE"

entry_action(state) ==
    CASE state \in {"CSI_ENTRY", "DCS_ENTRY", "ESC"} -> "CLEAR"
      [] state = "DCS_PASS" -> "DCS_START"
      [] state = "OSC_STRING" -> "OSC_START"
      [] OTHER -> "NONE"

exit_action(state) ==
    CASE state = "DCS_PASS" -> "DCS_END"
      [] state = "OSC_STRING" -> "OSC_END"
      [] OTHER -> "NONE"

\* the actions of one transition, performed in order
RECURSIVE do_actions(_, _, _)
do_actions(w, data, acts) ==
    IF acts = <<>> THEN w
    ELSE do_actions(do_action(w, data, Head(acts)), data, Tail(acts))

\* a do_trans that runs the exit action only when the target differs from
\* the current state
do_trans_exit_on_change(w, data, state, act) ==
    [do_actions(w, data,
                IF state # "NONE"
                THEN <<IF state # w.vte.state THEN exit_action(w.vte.state)
                       ELSE "NONE",
                       act, entry_action(state)>>
                ELSE <<act>>)
        EXCEPT !.vte.state = IF state # "NONE" THEN state ELSE @]

\* a do_trans in which CAN and SUB abort a string without its exit action
do_trans_cancel_silent(w, data, state, act) ==
    [do_actions(w, data,
                IF state # "NONE"
                THEN <<IF data \in {24, 26} THEN "NONE"
                       ELSE exit_action(w.vte.state),
                       act, entry_action(state)>>
                ELSE <<act>>)
        EXCEPT !.vte.state = IF state # "NONE" THEN state ELSE @]

\* do_trans: with a state change the exit action of the old state, the
\* transition's action and the entry action of the new state, then the
\* new state; otherwise the action alone
do_trans(w, data, state, act) ==
    [do_actions(w, data,
                IF state # "NONE"
                THEN <<exit_action(w.vte.state), act, entry_action(state)>>
                ELSE <<act>>)
        EXCEPT !.vte.state = IF state # "NONE" THEN state ELSE @]

\* the C0 controls the per-state tables list together
\* (0x00..0x17, 0x19, 0x1c..0x1f)
C0 == (0..23) \cup {25} \cup (28..31)

\* parse_data, first switch: events that may occur in any state, as
\* <<target state, action>>; <<>> when the byte is not in that switch
anywhere(raw) ==
    CASE raw \in {24, 26} \cup (128..143) \cup (145..151) \cup {153, 154, 156} ->
           <<"GROUND", "EXECUTE">>
      [] raw = 27 -> <<"ESC", "NONE">>
      [] raw \in {152, 158, 159} -> <<"ST_IGNORE", "NONE">>
      [] raw = 144 -> <<"DCS_ENTRY", "NONE">>
      [] raw = 157 -> <<"OSC_STRING", "NONE">>
      [] raw = 155 -> <<"CSI_ENTRY", "NONE">>
      [] OTHER -> <<>>

\* parse_data, second switch: events that depend on the current state
per_state(state, raw) ==
    CASE state = "GROUND" ->
           (CASE raw \in C0 \cup (128..143) \cup (145..154) \cup {156} ->
                   <<"NONE", "EXECUTE">>
              [] OTHER -> <<"NONE", "PRINT">>)
      [] state = "ESC" ->
           (CASE raw \in C0 -> <<"NONE", "EXECUTE">>
              [] raw = 127 -> <<"NONE", "IGNORE">>
              [] raw \in 32..47 -> <<"ESC_INT", "COLLECT">>
              [] raw \in (48..79) \cup (81..87) \cup {89, 90, 92} \cup (96..126)
                   -> <<"GROUND", "ESC_DISPATCH">>
              [] raw = 91 -> <<"CSI_ENTRY", "NONE">>
              [] raw = 93 -> <<"OSC_STRING", "NONE">>
              [] raw = 80 -> <<"DCS_ENTRY", "NONE">>
              [] raw \in {88, 94, 95} -> <<"ST_IGNORE", "NONE">>
              [] OTHER -> <<"ESC_INT", "COLLECT">>)
      [] state = "ESC_INT" ->
           (CASE raw \in C0 -> <<"NONE", "EXECUTE">>
              [] raw \in 32..47 -> <<"NONE", "COLLECT">>
              [] raw = 127 -> <<"NONE", "IGNORE">>
              [] raw \in 48..126 -> <<"GROUND", "ESC_DISPATCH">>
              [] OTHER -> <<"NONE", "COLLECT">>)
      [] state = "CSI_ENTRY" ->
           (CASE raw \in C0 -> <<"NONE", "EXECUTE">>
              [] raw = 127 -> <<"NONE", "IGNORE">>
              [] raw \in 32..47 -> <<"CSI_INT", "COLLECT">>
              [] raw = 58 -> <<"CSI_IGNORE", "NONE">>
              [] raw \in (48..57) \cup {59} -> <<"CSI_PARAM", "PARAM">>
              [] raw \in 60..63 -> <<"CSI_PARAM", "COLLECT">>
              [] raw \in 64..126 -> <<"GROUND", "CSI_DISPATCH">>
              [] OTHER -> <<"CSI_IGNORE", "NONE">>)
      [] state = "CSI_PARAM" ->
           (CASE raw \in C0 -> <<"NONE", "EXECUTE">>
              [] raw \in (48..57) \cup {59} -> <<"NONE", "PARAM">>
              [] raw = 127 -> <<"NONE", "IGNORE">>
              [] raw \in {58} \cup (60..63) -> <<"CSI_IGNORE", "NONE">>
              [] raw \in 32..47 -> <<"CSI_INT", "COLLECT">>
              [] raw \in 64..126 -> <<"GROUND", "CSI_DISPATCH">>
              [] OTHER -> <<"CSI_IGNORE", "NONE">>)
      [] state = "CSI_INT" ->
           (CASE raw \in C0 -> <<"NONE", "EXECUTE">>
              [] raw \in 32..47 -> <<"NONE", "COLLECT">>
              [] raw = 127 -> <<"NONE", "IGNORE">>
              [] raw \in 48..63 -> <<"CSI_IGNORE", "NONE">>
              [] raw \in 64..126 -> <<"GROUND", "CSI_DISPATCH">>
              [] OTHER -> <<"CSI_IGNORE", "NONE">>)
      [] state = "CSI_IGNORE" ->
           (CASE raw \in C0 -> <<"NONE", "EXECUTE">>
              [] raw \in (32..63) \cup {127} -> <<"NONE", "IGNORE">>
              [] raw \in 64..126 -> <<"GROUND", "NONE">>
              [] OTHER -> <<"NONE", "IGNORE">>)
      [] state = "DCS_ENTRY" ->
           (CASE raw \in C0 \cup {127} -> <<"NONE", "IGNORE">>
              [] raw = 58 -> <<"DCS_IGNORE", "NONE">>
              [] raw \in 32..47 -> <<"DCS_INT", "COLLECT">>
              [] raw \in (48..57) \cup {59} -> <<"DCS_PARAM", "PARAM">>
              [] raw \in 60..63 -> <<"DCS_PARAM", "COLLECT">>
              [] OTHER -> <<"DCS_PASS", "NONE">>)
      [] state = "DCS_PARAM" ->
           (CASE raw \in C0 \cup {127} -> <<"NONE", "IGNORE">>
              [] raw \in (48..57) \cup {59} -> <<"NONE", "PARAM">>
              [] raw \in {58} \cup (60..63) -> <<"DCS_IGNORE", "NONE">>
              [] raw \in 32..47 -> <<"DCS_INT", "COLLECT">>
              [] OTHER -> <<"DCS_PASS", "NONE">>)
      [] state = "DCS_INT" ->
           (CASE raw \in C0 \cup {127} -> <<"NONE", "IGNORE">>
              [] raw \in 32..47 -> <<"NONE", "COLLECT">>
              [] raw \in 48..63 -> <<"DCS_IGNORE", "NONE">>
              [] OTHER -> <<"DCS_PASS", "NONE">>)
      [] state = "DCS_PASS" ->
           (CASE raw = 127 -> <<"NONE", "IGNORE">>
              [] raw = 156 -> <<"GROUND", "NONE">>
              [] OTHER -> <<"NONE", "DCS_COLLECT">>)
      [] state = "DCS_IGNORE" ->
           (CASE raw = 156 -> <<"GROUND", "NONE">>
              [] OTHER -> <<"NONE", "IGNORE">>)
      [] state = "OSC_STRING" ->
           (CASE raw \in ((0..6) \cup (8..23) \cup {25} \cup (28..31)) ->
                   <<"NONE", "IGNORE">>
              [] raw = 7 -> <<"GROUND", "NONE">>
              [] raw = 156 -> <<"GROUND", "NONE">>
              [] OTHER -> <<"NONE", "OSC_COLLECT">>)
      [] state = "ST_IGNORE" ->
           (CASE raw = 156 -> <<"GROUND", "NONE">>
              [] OTHER -> <<"NONE", "IGNORE">>)
      [] OTHER -> <<>>

\* a parse_data that consults the per-state table before the bytes that
\* may occur in any state (the order the parser must not use)
parse_data_state_first(w, raw) ==
    LET t == IF per_state(w.vte.state, raw)[2] \notin {"IGNORE", "NONE"}
                \/ anywhere(raw) = <<>>
             THEN per_state(w.vte.state, raw)
             ELSE anywhere(raw)
    IN  IF t = <<>> THEN w ELSE do_trans(w, raw, t[1], t[2])

\* a parse_data whose CSI_IGNORE state dispatches the final byte
parse_data_ignore_dispatches(w, raw) ==
    LET t == IF anywhere(raw) # <<>> THEN anywhere(raw)
             ELSE IF w.vte.state = "CSI_IGNORE" /\ raw \in 64..126
             THEN <<"GROUND", "CSI_DISPATCH">>
             ELSE per_state(w.vte.state, raw)
    IN  IF t = <<>> THEN w ELSE do_trans(w, raw, t[1], t[2])

\* parse_data: feed one codepoint to the state machine
parse_data(w, raw) ==
    LET t == IF anywhere(raw) # <<>> THEN anywhere(raw)
             ELSE per_state(w.vte.state, raw)
    IN  IF t = <<>> THEN w ELSE do_trans(w, raw, t[1], t[2])

\* the codepoint tsm_vte_input hands to parse_data for a char in 8-bit
\* mode: the char converts to uint32_t with sign extension, held here as
\* its signed reading
char_to_u32(b) == IF b >= 128 THEN b - 256 ELSE b

\* an iteration that hands a codepoint on only when the decoder accepts
decode_byte_accept_only(w, c) ==
    IF "7BIT_MODE" \in w.vte.flags
    THEN [w |-> w, emit |-> TRUE, cp |-> c % 128]
    ELSE IF "8BIT_MODE" \in w.vte.flags
    THEN [w |-> w, emit |-> TRUE, cp |-> char_to_u32(c)]
    ELSE LET m == tsm_utf8_mach_feed(w.vte.mach, c)
         IN  [w |-> [w EXCEPT !.vte.mach = m],
              emit |-> m.state = "ACCEPT",
              cp |-> tsm_utf8_mach_get(m)]

\* one iteration of the loop of tsm_vte_input before parse_data: the
\* codepoint byte c yields in the current mode (emit is FALSE while the
\* UTF-8 decoder is inside a sequence) and the world with the decoder fed
decode_byte(w, c) ==
    IF "7BIT_MODE" \in w.vte.flags
    THEN [w |-> w, emit |-> TRUE, cp |-> c % 128]
    ELSE IF "8BIT_MODE" \in w.vte.flags
    THEN [w |-> w, emit |-> TRUE, cp |-> char_to_u32(c)]
    ELSE LET m == tsm_utf8_mach_feed(w.vte.mach, c)
         IN  [w |-> [w EXCEPT !.vte.mach = m],
              emit |-> m.state \in {"ACCEPT", "REJECT"},
              cp |-> tsm_utf8_mach_get(m)]

\* the rest of the iteration: parse_data on the codepoint, if there is one
parse_decoded(d) == IF d.emit THEN parse_data(d.w, d.cp) ELSE d.w

\* the loop of tsm_vte_input from byte i on
RECURSIVE input_loop(_, _, _)
input_loop(w, u8, i) ==
    IF i > Len(u8) THEN w
    ELSE input_loop(parse_decoded(decode_byte(w, u8[i])), u8, i + 1)

\* the end of tsm_vte_input: --parse_cnt; the call is logged in obs.calls
\* with the value of parse_cnt on entry (pre) and on return
input_return(w2, u8, pre) ==
    [w2 EXCEPT !.vte.parse_cnt = @ - 1,
               !.obs.calls = Append(@, [u8 |-> u8, pre |-> pre,
                                        post |-> w2.vte.parse_cnt - 1])]

\* tsm_vte_input: ++parse_cnt, the loop over the bytes, --parse_cnt
tsm_vte_input(w, u8) ==
    input_return(input_loop([w EXCEPT !.vte.parse_cnt = @ + 1], u8, 1),
                 u8, w.vte.parse_cnt)

(* ------------------------------ keyboard ------------------------------- *)
\* Keysyms are held by their XKB names (XKB_KEY_a is "a"), modifiers as a
\* subset of {"SHIFT", "CONTROL", "ALT"}, TSM_VTE_INVALID as -1.
LowerKeys == <<"a", "b", "c", "d", "e", "f", "g", "h", "i", "j", "k", "l", "m",
               "n", "o", "p", "q", "r", "s", "t", "u", "v", "w", "x", "y", "z">>
UpperKeys == <<"A", "B", "C", "D", "E", "F", "G", "H", "I", "J", "K", "L", "M",
               "N", "O", "P", "Q", "R", "S", "T", "U", "V", "W", "X", "Y", "Z">>

\* the switch on sym under TSM_CONTROL_MASK: the byte sent, or <<>> when
\* the switch has no case for sym
ctrl_payload(sym) ==
    CASE sym \in {"2", "space"} -> <<0>>
      [] \E i \in 1..26 : sym \in {LowerKeys[i], UpperKeys[i]} ->
           <<CHOOSE i \in 1..26 : sym \in {LowerKeys[i], UpperKeys[i]}>>
      [] sym \in {"3", "bracketleft", "braceleft"} -> <<27>>
      [] sym \in {"4", "backslash", "bar"} -> <<28>>
      [] sym \in {"5", "bracketright", "braceright"} -> <<29>>
      [] sym \in {"6", "grave", "asciitilde"} -> <<30>>
      [] sym \in {"7", "slash", "question"} -> <<31>>
      [] sym = "8" -> <<127>>
      [] OTHER -> <<>>

\* cursor-style keys that look at DECCKM before Control
cursor_key_mode_first(v, mods, final) ==
    IF "CURSOR_KEY_MODE" \in v.flags THEN <<27, 79, final>>
    ELSE IF "CONTROL" \in mods THEN <<27, 91, 49, 59, 53, final>>
    ELSE <<27, 91, final>>

\* cursor-style keys: with Control, with DECCKM, plain
cursor_key(v, mods, final) ==
    IF "CONTROL" \in mods THEN <<27, 91, 49, 59, 53, final>>
    ELSE IF "CURSOR_KEY_MODE" \in v.flags THEN <<27, 79, final>>
    ELSE <<27, 91, final>>

\* keypad keys: application mode sends ESC O final, else the plain byte
keypad_key(v, final, plain) ==
    IF "KEYPAD_APPLICATION_MODE" \in v.flags THEN <<27, 79, final>>
    ELSE <<plain>>

FKeys == <<"F1", "F2", "F3", "F4", "F5", "F6", "F7", "F8", "F9", "F10",
           "F11", "F12", "F13", "F14", "F15", "F16", "F17", "F18", "F19", "F20">>

\* the number n of the ESC [ n ~ sequences of the function keys
fkey_plain == <<0, 0, 0, 0, 15, 17, 18, 19, 20, 21,
                23, 24, 25, 26, 28, 29, 31, 32, 33, 34>>
fkey_shift == <<23, 24, 25, 26, 28, 29, 31, 32, 33, 34>>

\* the switch on keysym: the bytes sent, or <<>> when it has no case
key_payload(v, keysym, mods) ==
    LET shift == "SHIFT" \in mods
        fnum(k) == CHOOSE i \in 1..20 : FKeys[i] = k
    IN
    CASE keysym = "BackSpace" -> <<8>>
      [] keysym \in {"Tab", "KP_Tab"} -> <<9>>
      [] keysym = "ISO_Left_Tab" -> <<27, 91, 90>>
      [] keysym = "Linefeed" -> <<10>>
      [] keysym = "Clear" -> <<11>>
      [] keysym = "Sys_Req" -> <<21>>
      [] keysym = "Escape" -> <<27>>
      [] keysym = "KP_Enter" /\ "KEYPAD_APPLICATION_MODE" \in v.flags ->
           <<27, 79, 77>>
      [] keysym \in {"KP_Enter", "Return"} ->
           IF "LINE_FEED_NEW_LINE_MODE" \in v.flags THEN <<13, 10>> ELSE <<13>>
      [] keysym = "Find" -> <<27, 91, 49, 126>>
      [] keysym = "Insert" -> <<27, 91, 50, 126>>
      [] keysym = "Delete" -> <<27, 91, 51, 126>>
      [] keysym = "Select" -> <<27, 91, 52, 126>>
      [] keysym \in {"Page_Up", "KP_Page_Up"} -> <<27, 91, 53, 126>>
      [] keysym \in {"Page_Down", "KP_Page_Down"} -> <<27, 91, 54, 126>>
      [] keysym \in {"Up", "KP_Up"} -> cursor_key(v, mods, 65)
      [] keysym \in {"Down", "KP_Down"} -> cursor_key(v, mods, 66)
      [] keysym \in {"Right", "KP_Right"} -> cursor_key(v, mods, 67)
      [] keysym \in {"Left", "KP_Left"} -> cursor_key(v, mods, 68)
      [] keysym \in {"Home", "KP_Home"} -> cursor_key(v, mods, 72)
      [] keysym \in {"End", "KP_End"} -> cursor_key(v, mods, 70)
      [] keysym \in {"KP_Insert", "KP_0"} -> keypad_key(v, 112, 48)
      [] keysym = "KP_1" -> keypad_key(v, 113, 49)
      [] keysym = "KP_2" -> keypad_key(v, 114, 50)
      [] keysym = "KP_3" -> keypad_key(v, 115, 51)
      [] keysym = "KP_4" -> keypad_key(v, 116, 52)
      [] keysym = "KP_5" -> keypad_key(v, 117, 53)
      [] keysym = "KP_6" -> keypad_key(v, 118, 54)
      [] keysym = "KP_7" -> keypad_key(v, 119, 55)
      [] keysym = "KP_8" -> keypad_key(v, 120, 56)
      [] keysym = "KP_9" -> keypad_key(v, 121, 57)
      [] keysym = "KP_Subtract" -> keypad_key(v, 109, 45)
      [] keysym = "KP_Separator" -> keypad_key(v, 108, 44)
      [] keysym \in {"KP_Delete", "KP_Decimal"} -> keypad_key(v, 110, 46)
      [] keysym \in {"KP_Equal", "KP_Divide"} -> keypad_key(v, 106, 47)
      [] keysym = "KP_Multiply" -> keypad_key(v, 111, 42)
      [] keysym = "KP_Add" -> keypad_key(v, 107, 43)
      [] keysym = "KP_Space" -> <<32>>
      [] keysym \in {"F1", "KP_F1"} ->
           IF shift THEN <<27, 91, 50, 51, 126>> ELSE <<27, 79, 80>>
      [] keysym \in {"F2", "KP_F2"} ->
           IF shift THEN <<27, 91, 50, 52, 126>> ELSE <<27, 79, 81>>
      [] keysym \in {"F3", "KP_F3"} ->
           IF shift THEN <<27, 91, 50, 53, 126>> ELSE <<27, 79, 82>>
      [] keysym \in {"F4", "KP_F4"} ->
           IF shift THEN <<27, 91, 50, 54, 126>> ELSE <<27, 79, 83>>
      [] keysym \in {"F5", "F6", "F7", "F8", "F9", "F10"} ->
           <<27, 91>> \o Decimal(IF shift THEN fkey_shift[fnum(keysym)]
                                 ELSE fkey_plain[fnum(keysym)]) \o <<126>>
      [] keysym \in {"F11", "F12", "F13", "F14", "F15", "F16", "F17", "F18",
                     "F19", "F20"} ->
           <<27, 91>> \o Decimal(fkey_plain[fnum(keysym)])
               \o (IF shift THEN <<59, 50, 126>> ELSE <<126>>)
      [] OTHER -> <<>>

\* the bytes sent for a key that only carries a unicode value
unicode_payload(v, unicode) ==
    IF "7BIT_MODE" \in v.flags
    THEN (IF (unicode \div 128) % 2 = 1 THEN <<63>> ELSE <<unicode % 256>>)
    ELSE IF "8BIT_MODE" \in v.flags
    THEN (IF unicode > 255 THEN <<63>> ELSE <<unicode>>)
    ELSE tsm_ucs4_to_utf8(tsm_symbol_make(unicode))

\* what tsm_vte_handle_keyboard sends for the event: the Control switch
\* first, then the keysym switch, then the unicode value; send is FALSE
\* when none of them applies
keyboard_payload(v, keysym, ascii, mods, unicode) ==
    LET sym == IF ascii = "NoSymbol" THEN keysym ELSE ascii
        cp  == IF "CONTROL" \in mods THEN ctrl_payload(sym) ELSE <<>>
        kp  == key_payload(v, keysym, mods)
    IN  IF cp # <<>> THEN [send |-> TRUE, u8 |-> cp]
        ELSE IF kp # <<>> THEN [send |-> TRUE, u8 |-> kp]
        ELSE IF unicode # -1
        THEN [send |-> TRUE, u8 |-> unicode_payload(v, unicode)]
        ELSE [send |-> FALSE, u8 |-> <<>>]

\* a handler whose refusing path returns with the flag as it is
keyboard_send_keeps_flag(w, p) ==
    IF p.send THEN [vte_write_debug(w, p.u8) EXCEPT !.obs.ret = TRUE]
    ELSE [w EXCEPT !.obs.ret = FALSE]

\* the tail of tsm_vte_handle_keyboard: the payload is written and the
\* event consumed, or the flag is cleared and the event refused
keyboard_send(w, p) ==
    IF p.send THEN [vte_write_debug(w, p.u8) EXCEPT !.obs.ret = TRUE]
    ELSE [w EXCEPT !.vte.flags = @ \ {"PREPEND_ESCAPE"}, !.obs.ret = FALSE]

\* tsm_vte_handle_keyboard; the return value is left in obs.ret
\* a handler that sets the neighbouring bit of the flag word for Alt
tsm_vte_handle_keyboard_wrong_bit(w0, keysym, ascii, mods, unicode) ==
    keyboard_send(IF "ALT" \in mods
                  THEN [w0 EXCEPT !.vte.flags = @ \cup {"TITE_INHIBIT_MODE"}]
                  ELSE w0,
                  keyboard_payload(w0.vte, keysym, ascii, mods, unicode))

tsm_vte_handle_keyboard(w0, keysym, ascii, mods, unicode) ==
    keyboard_send(IF "ALT" \in mods
                  THEN [w0 EXCEPT !.vte.flags = @ \cup {"PREPEND_ESCAPE"}]
                  ELSE w0,
                  keyboard_payload(w0.vte, keysym, ascii, mods, unicode))

(* ------------------------------- actions ------------------------------- *)
\* the world a public call starts from: the instance, its screen and a
\* fresh log that notes the call, its argument and the parser state, the
\* flags and the current attribute it found
CallOn(w, op, arg) ==
    [w EXCEPT !.obs = [EmptyObs(op) EXCEPT !.arg = arg,
                                           !.pre_state = w.vte.state,
                                           !.pre_flags = w.vte.flags,
                                           !.pre_cattr = w.vte.cattr]]

Call(op, arg) == CallOn([vte |-> vte, con |-> con, obs |-> obs], op, arg)

\* the world after the bytes of s were fed one input call each; a call
\* has returned (its result is a value) before the next one is made
RECURSIVE Feed(_, _)
FeedNext(nw, s) == IF nw.vte.state \in States THEN Feed(nw, Tail(s)) ELSE nw

Feed(w, s) ==
    IF s = <<>> THEN w
    ELSE FeedNext(tsm_vte_input(CallOn(w, "input", <<Head(s)>>), <<Head(s)>>),
                  s)

\* Feed for a long byte sequence, fed half by half (the same calls in
\* the same order)
RECURSIVE FeedRun(_, _)
FeedRunRest(l, s, h) ==
    IF l.vte.state \in States THEN FeedRun(l, SubSeq(s, h + 1, Len(s)))
    ELSE l

FeedRun(w, s) ==
    IF Len(s) <= 16 THEN Feed(w, s)
    ELSE FeedRunRest(FeedRun(w, SubSeq(s, 1, Len(s) \div 2)), s,
                     Len(s) \div 2)

\* no DECSC ran since the instance was created, reset or given a palette
NoMark ==
    [set |-> FALSE, x |-> 0, y |-> 0, cattr |-> ZeroAttr,
     gl |-> "NULL", gr |-> "NULL", wrap |-> FALSE, origin |-> FALSE]

\* the call logged in o dispatched ESC b with no intermediate flag set and
\* did nothing else that acts: either the one byte b was fed after ESC, or
\* ESC b came in one buffer
Dispatched(o, b) ==
    /\ o.op = "input"
    /\ \/ /\ Len(o.arg) = 1
          /\ vte.csi_flags = {}
          /\ o.acts = <<[act |-> "ESC_DISPATCH", data |-> b]>>
       \/ /\ Len(o.acts) >= 2
          /\ o.acts[Len(o.acts)] = [act |-> "ESC_DISPATCH", data |-> b]
          /\ o.acts[Len(o.acts) - 1] = [act |-> "CLEAR", data |-> 27]
          /\ \A i \in 1..(Len(o.acts) - 2) :
                o.acts[i].act \in {"OSC_END", "DCS_END"}

\* the call logged in o ran a soft reset (alone or as part of a hard one)
ResetIn(o) == \E i \in 1..Len(o.scr) : o.scr[i][1] = "reset"

\* mark after the call logged in o: what DECSC found (the cursor, the
\* current attribute, GL, GR, auto-wrap and origin before the call), nothing
\* after a reset, a palette change or a DECSC inside a longer call
NextMark(o) ==
    IF ResetIn(o)
       \/ (o.op \in {"set_palette", "set_custom_palette"} /\ o.err = "0")
    THEN NoMark
    ELSE IF Dispatched(o, 55)
    THEN [set |-> TRUE, x |-> con.cursor_x, y |-> con.cursor_y,
          cattr |-> vte.cattr, gl |-> vte.gl, gr |-> vte.gr,
          wrap |-> "AUTO_WRAP_MODE" \in vte.flags,
          origin |-> "ORIGIN_MODE" \in vte.flags]
    ELSE IF /\ o.op # "input" \/ Len(o.arg) # 1
            /\ \E i \in 1..Len(o.acts) :
                  o.acts[i] = [act |-> "ESC_DISPATCH", data |-> 55]
    THEN NoMark
    ELSE mark

\* the world a public call leaves behind
Return(w) ==
    vte' = w.vte /\ con' = w.con /\ obs' = w.obs /\ mark' = NextMark(w.obs)

\* tsm_vte_input(vte, &b, 1): one byte from the pty.  hist is the byte
\* sequence fed since the parser last stood in GROUND at a call boundary;
\* room bounds its length.
Input(b) ==
    /\ vte.state = "GROUND" \/ room > 0
    /\ Return(tsm_vte_input(Call("input", <<b>>), <<b>>))
    /\ hist' = IF vte.state = "GROUND" THEN <<b>> ELSE Append(hist, b)
    /\ room' = IF vte.state = "GROUND" THEN MaxSeq - 1 ELSE room - 1

\* tsm_vte_input(vte, u8, len) with a buffer of several bytes; at most
\* MaxBufs buffers are fed between two resets
InputBuf(u8) ==
    /\ room > MaxSeq - MaxBufs
    /\ Return(tsm_vte_input(Call("input", u8), u8))
    /\ hist' = IF vte.state = "GROUND" THEN u8 ELSE hist \o u8
    /\ room' = room - 1

\* tsm_vte_handle_keyboard(vte, keysym, ascii, mods, unicode)
Keyboard(keysym, ascii, mods, unicode) ==
    /\ Return(tsm_vte_handle_keyboard(
                  Call("keyboard", <<keysym, ascii, mods, unicode>>),
                  keysym, ascii, mods, unicode))
    /\ hist' = <<>>
    /\ room' = IF vte'.state = "GROUND" THEN MaxSeq ELSE 0

\* tsm_vte_reset(vte)
Reset ==
    /\ Return(tsm_vte_reset(Call("reset", <<>>)))
    /\ hist' = <<>>
    /\ room' = MaxSeq

\* tsm_vte_hard_reset(vte)
HardReset ==
    /\ Return(tsm_vte_hard_reset(Call("hard_reset", <<>>)))
    /\ hist' = <<>>
    /\ room' = MaxSeq

\* tsm_vte_set_palette(vte, name)
SetPalette(name) ==
    /\ Return(tsm_vte_set_palette(Call("set_palette", <<name>>), name))
    /\ UNCHANGED <<hist, room>>

\* tsm_vte_set_custom_palette(vte, palette)
SetCustomPalette(palette) ==
    /\ Return(tsm_vte_set_custom_palette(
                  Call("set_custom_palette", <<palette>>), palette))
    /\ UNCHANGED <<hist, room>>

\* tsm_vte_set_bell_cb(vte, bell_cb, data)
SetBellCb(bell_cb) ==
    /\ Return(tsm_vte_set_bell_cb(Call("set_bell_cb", <<bell_cb>>), bell_cb))
    /\ UNCHANGED <<hist, room>>

\* tsm_vte_set_osc_cb(vte, osc_cb, data)
SetOscCb(osc_cb) ==
    /\ Return(tsm_vte_set_osc_cb(Call("set_osc_cb", <<osc_cb>>), osc_cb))
    /\ UNCHANGED <<hist, room>>

\* tsm_vte_set_palette(vte or NULL, name) with strdup succeeding or not
SetPaletteEntry(inst, name, alloc) ==
    /\ Return(set_palette_entry(Call("set_palette", <<inst, name, alloc>>),
                                inst, name, alloc))
    /\ UNCHANGED <<hist, room>>

\* tsm_vte_set_custom_palette(vte or NULL, palette) with malloc succeeding
\* or not
SetCustomPaletteEntry(inst, palette, alloc) ==
    /\ Return(set_custom_palette_entry(
                  Call("set_custom_palette", <<inst, palette, alloc>>),
                  inst, palette, alloc))
    /\ UNCHANGED <<hist, room>>

\* tsm_vte_new(out, con, write_cb, ...) with any of the three null
NewEntry(out, scr, cb, alloc) ==
    /\ Return(new_entry(Call("new", <<out, scr, cb, alloc>>),
                        out, scr, cb, alloc))
    /\ hist' = IF obs'.err = "0" THEN <<>> ELSE hist
    /\ room' = IF obs'.err = "0" THEN MaxSeq ELSE room

\* one of the four calls on a null instance
NullCall(op) ==
    /\ Return(null_instance(Call(op, <<>>), op))
    /\ UNCHANGED <<hist, room>>

\* a run starts with the instance in world w after the bytes of p
Start(w, p) ==
    /\ vte = w.vte
    /\ con = w.con
    /\ obs = w.obs
    /\ hist = p
    /\ room = MaxSeq
    /\ mark = NoMark

\* the instance as tsm_vte_new leaves it
Init == Start(tsm_vte_new, <<>>)

(* ---------------- the parser under every interrupting byte ------------- *)
\* bytes that lead into each of the fourteen parser states, and the
\* three bytes CAN, SUB and ESC
ParserBytes == {24, 26, 27, 91, 93, 80, 88, 49, 32, 58, 109}

ParserKeys == {<<"Return", {}>>, <<"F1", {"ALT"}>>, <<"e", {"CONTROL"}>>}

Next ==
    \/ \E b \in ParserBytes : Input(b)
    \/ \E k \in ParserKeys : Keyboard(k[1], "NoSymbol", k[2], -1)
    \/ Reset
    \/ HardReset

Spec == Init /\ [][Next]_vars

(* -------------------- control sequences with parameters ---------------- *)
\* the byte prefixes a run starts after: nothing, ESC [ 1 ; 3, ESC [ with
\* fourteen parameters, and ESC [ 6 5 5 3
CsiPrefixes ==
    { <<>>,
      <<27, 91, 49, 59, 51>>,
      <<27, 91>> \o [i \in 1..28 |-> IF i % 2 = 1 THEN 49 ELSE 59],
      <<27, 91, 54, 53, 53, 51>> }

InitCsi == \E p \in CsiPrefixes : Start(Feed(tsm_vte_new, p), p)

CsiBytes == {27, 91, 49, 53, 59, 109, 88}

CsiKeys == {<<"Return", {}>>, <<"Up", {"ALT"}>>}

NextCsi ==
    \/ \E b \in CsiBytes : Input(b)
    \/ \E k \in CsiKeys : Keyboard(k[1], "NoSymbol", k[2], -1)
    \/ Reset
    \/ HardReset

SpecCsi == InitCsi /\ [][NextCsi]_vars

(* ------------------------- character set designation ------------------- *)
\* SO, SI, the single shifts ESC N and ESC O, the locking shifts
\* ESC n o | } ~, DECSC and DECRC (ESC 7, ESC 8), and the printed
\* codepoints space and 'A'
GsetBytes == {14, 15, 27, 78, 79, 110, 111, 124, 125, 126, 55, 56, 32, 65}

GsetKeys == {<<"Return", {}>>}

NextGsets ==
    \/ \E b \in GsetBytes : Input(b)
    \/ \E k \in GsetKeys : Keyboard(k[1], "NoSymbol", k[2], -1)
    \/ Reset
    \/ HardReset

SpecGsets == Init /\ [][NextGsets]_vars

(* ------------------------------ local echo ----------------------------- *)
\* the byte prefixes a run starts after: nothing, and ESC [ 1 2, which an
\* 'l' or 'h' completes to the sequence that switches SEND_RECEIVE_MODE
EchoPrefixes == { <<>>, <<27, 91, 49, 50>> }

InitEcho == \E p \in EchoPrefixes : Start(Feed(tsm_vte_new, p), p)

\* ENQ, ESC, '[', 'c' (ESC c, ESC [ c), 'l', 'h', '!' and 'p' (ESC [ ! p),
\* '5' and 'n' (ESC [ 5 n)
EchoBytes == {5, 27, 91, 99, 108, 104, 33, 112, 53, 110}

\* keysym, modifiers and unicode value of the keys pressed
EchoKeys ==
    { <<"e", {"CONTROL"}, -1>>,
      <<"e", {"CONTROL", "ALT"}, -1>>,
      <<"c", {"ALT"}, 99>>,
      <<"c", {}, 99>>,
      <<"bracketleft", {"ALT"}, 91>>,
      <<"Return", {}, -1>>,
      <<"Up", {"ALT"}, -1>>,
      <<"Shift_L", {"ALT"}, -1>> }

NextEcho ==
    \/ \E b \in EchoBytes : Input(b)
    \/ \E k \in EchoKeys : Keyboard(k[1], "NoSymbol", k[2], k[3])
    \/ Reset
    \/ HardReset

SpecEcho == InitEcho /\ [][NextEcho]_vars

(* --------------------------- save and restore -------------------------- *)
\* DECSC and DECRC (ESC 7, ESC 8), SO and SI, LS2R (ESC }), SGR bold and
\* red (CSI 1 m, CSI 3 1 m), DECAWM off and on (CSI ? 7 l, CSI ? 7 h), DECOM
\* on (CSI ? 6 h) and CUP to the second row and column (CSI 2 ; 2 H), each
\* fed as one buffer
SaveSeqs ==
    { <<27, 55>>, <<27, 56>>, <<14>>, <<15>>, <<27, 125>>,
      <<27, 91, 49, 109>>, <<27, 91, 51, 49, 109>>,
      <<27, 91, 63, 55, 108>>, <<27, 91, 63, 55, 104>>,
      <<27, 91, 63, 54, 104>>, <<27, 91, 50, 59, 50, 72>> }

NextSave ==
    \/ \E s \in SaveSeqs : InputBuf(s)
    \/ Reset
    \/ HardReset

SpecSave == Init /\ [][NextSave]_vars

(* -------------------------------- resets ------------------------------- *)
\* the byte prefixes a run starts after: nothing; DECCKM, DECSCNM, DECOM and
\* DECNRCM set (CSI ? 1 ; 5 ; 6 ; 42 h), IRM and LNM set (CSI 4 ; 20 h),
\* DECKPAM (ESC =), special graphics in G0 (ESC ( 0), SO, LS2R (ESC }),
\* bold red (CSI 1 ; 31 m) and a pending SS2 (ESC N); special graphics in
\* G1 (ESC ) 0), DECAWM off (CSI ? 7 l), blue background (CSI 44 m) and an
\* unfinished OSC string (ESC ] 1)
ResetPrefixes ==
    { <<>>,
      <<27, 91, 63, 49, 59, 53, 59, 54, 59, 52, 50, 104,
        27, 91, 52, 59, 50, 48, 104, 27, 61, 27, 40, 48, 14, 27, 125,
        27, 91, 49, 59, 51, 49, 109, 27, 78>>,
      <<27, 41, 48, 27, 91, 63, 55, 108, 27, 91, 52, 52, 109, 27, 93, 49>> }

InitReset == \E p \in ResetPrefixes : Start(Feed(tsm_vte_new, p), p)

\* DECSTR (CSI ! p), RIS (ESC c), SGR bold (CSI 1 m), SS2 (ESC N), DECOM
\* (CSI ? 6 h), 'A' and an unfinished CSI 1, each fed as one buffer
ResetSeqs ==
    { <<27, 91, 33, 112>>, <<27, 99>>, <<27, 91, 49, 109>>, <<27, 78>>,
      <<27, 91, 63, 54, 104>>, <<65>>, <<27, 91, 49>> }

NextReset ==
    \/ \E s \in ResetSeqs : InputBuf(s)
    \/ Reset
    \/ HardReset

SpecReset == InitReset /\ [][NextReset]_vars

(* ------------------------- graphic rendition --------------------------- *)
\* the bytes of a parameter list: decimal fields separated by ';', a
\* negative number standing for an empty field
RECURSIVE ParamBytes(_)
ParamBytes(ps) ==
    IF ps = <<>> THEN <<>>
    ELSE (IF Len(ps) = 1 THEN <<>>
          ELSE ParamBytes(SubSeq(ps, 1, Len(ps) - 1)) \o <<59>>)
         \o (IF ps[Len(ps)] < 0 THEN <<>> ELSE Decimal(ps[Len(ps)]))

\* CSI ps m as one buffer
SgrBytes(ps) == <<27, 91>> \o ParamBytes(ps) \o <<109>>

\* the byte prefixes a run starts after: nothing; bold, italic, underline,
\* blink, inverse, red on blue (CSI 1 ; 3 ; 4 ; 5 ; 7 ; 31 ; 44 m); an RGB
\* foreground and a cube background (CSI 38 ; 2 ; 1 ; 2 ; 3 ; 48 ; 5 ; 100 m);
\* an unfinished CSI with fourteen bold fields (CSI 1 ; ... 1 ;)
SgrPrefixes ==
    { <<>>,
      SgrBytes(<<1, 3, 4, 5, 7, 31, 44>>),
      SgrBytes(<<38, 2, 1, 2, 3, 48, 5, 100>>),
      <<27, 91>> \o [i \in 1..28 |-> IF i % 2 = 1 THEN 49 ELSE 59] }

InitSgr == \E p \in SgrPrefixes : Start(FeedRun(tsm_vte_new, p), p)

\* the fields of the short lists: empty, reset, bold, underline, red
\* foreground, blue background
SgrItems == {-1, 0, 1, 4, 31, 44}

\* every list of one to three such fields
SgrLists ==
    UNION { [1..n -> SgrItems] : n \in 1..3 }

\* the indexed colours beyond the first sixteen: CSI 38 ; 5 ; i m and
\* CSI 48 ; 5 ; i m for every i of the colour cube and the grey ramp
CubeLists == { <<k, 5, i>> : k \in {38, 48}, i \in 16..255 }

\* colour components that are SGR codes when read on their own (reset,
\* bold, faint, blink, the two extended-colour codes) and the largest one
RgbSamples == {0, 1, 2, 5, 38, 48, 255}

\* CSI 38 ; 2 ; r ; g ; b m and CSI 48 ; 2 ; r ; g ; b m
RgbLists ==
    { <<k, 2, r, g, b>> : k \in {38, 48}, r \in RgbSamples,
                          g \in RgbSamples, b \in RgbSamples }

\* what follows a 38 or 48 whose extended colour is invalid: nothing, a
\* selector 5 with no index or an empty one, a selector 2 with fewer than
\* three components or an empty one, and other selectors (an empty field,
\* reset, bold, inverse, red, faint, and an extended colour of its own)
InvalidTails ==
    { <<>>, <<5>>, <<5, -1>>, <<5, -1, 1>>,
      <<2>>, <<2, 1>>, <<2, 1, 2>>, <<2, -1, 2, 3>>, <<2, 1, -1, 3>>,
      <<2, 1, 2, -1>>,
      <<-1>>, <<-1, 1>>, <<0>>, <<1>>, <<7, 4>>, <<31>>, <<6>>,
      <<48, 5, 100>>, <<38, 2, 1, 2, 3>> }

\* CSI 38 ; tail m and CSI 48 ; tail m
InvalidLists == { <<k>> \o t : k \in {38, 48}, t \in InvalidTails }

\* what completes the fourteen bold fields of the last prefix: two more
\* fields ending in 38 or 48 (sixteen in all), 38 ; 5, a single 38 (fifteen
\* in all) and three more fields (seventeen in all)
LongTails ==
    { <<49, 59, 51, 56, 109>>, <<49, 59, 52, 56, 109>>,
      <<51, 56, 59, 53, 109>>, <<51, 56, 109>>,
      <<49, 59, 49, 59, 51, 56, 109>> }

\* one SGR sequence is fed as one buffer after the prefix, and the letter
\* 'A' after it
NextSgr ==
    \/ \E ps \in SgrLists \cup CubeLists \cup RgbLists \cup InvalidLists :
          room = MaxSeq /\ InputBuf(SgrBytes(ps))
    \/ \E u8 \in LongTails :
          room = MaxSeq /\ vte.state = "CSI_PARAM" /\ InputBuf(u8)
    \/ room = MaxSeq - 1 /\ Input(65)

SpecSgr == InitSgr /\ [][NextSgr]_vars

(* ------------------------------- palettes ------------------------------ *)
\* SGR bold, red, bright blue by index and yellow background by index
\* (CSI 1 m, CSI 31 m, CSI 38 ; 5 ; 12 m, CSI 48 ; 5 ; 3 m), DECSC and DECRC,
\* each fed as one buffer
PaletteSeqs ==
    { SgrBytes(<<1>>), SgrBytes(<<31>>), SgrBytes(<<38, 5, 12>>),
      SgrBytes(<<48, 5, 3>>), <<27, 55>>, <<27, 56>> }

\* no name, a built-in palette and the custom palette
PaletteNames == {"NULL", "solarized", "custom"}

\* a caller's table: entry c is (10c, 10c + 1, 10c + 2)
GreyPalette == [i \in 1..TSM_COLOR_NUM |-> <<10 * (i - 1), 10 * i - 9, 10 * i - 8>>]

NextPalette ==
    \/ \E s \in PaletteSeqs : InputBuf(s)
    \/ \E n \in PaletteNames : SetPalette(n)
    \/ \E p \in {<<>>, GreyPalette} : SetCustomPalette(p)
    \/ Reset
    \/ HardReset

SpecPalette == Init /\ [][NextPalette]_vars

(* -------------------------------- UTF-8 -------------------------------- *)
\* the byte prefixes a run starts after: nothing, and bold red
\* (CSI 1 ; 31 m)
Utf8Prefixes == { <<>>, SgrBytes(<<1, 31>>) }

InitUtf8 == \E p \in Utf8Prefixes : Start(Feed(tsm_vte_new, p), p)

\* every codepoint below U+0300, the ends of the two-, three- and
\* four-byte ranges, the neighbours of the surrogates, a surrogate, the
\* replacement character, U+FFFF and the last codepoint
Codepoints ==
    (0..767) \cup {2047, 2048, 4095, 4096, 55295, 55296, 57344, 65533,
                   65535, 65536, 262143, 262144, 1114111}

\* the UTF-8 encoding of the codepoint c (none for a surrogate)
Utf8(c) ==
    CASE c \in 55296..57343 -> <<>>
      [] c < 128 -> <<c>>
      [] c < 2048 -> <<192 + (c \div 64), 128 + (c % 64)>>
      [] c < 65536 -> <<224 + (c \div 4096), 128 + ((c \div 64) % 64),
                        128 + (c % 64)>>
      [] OTHER -> <<240 + (c \div 262144), 128 + ((c \div 4096) % 64),
                    128 + ((c \div 64) % 64), 128 + (c % 64)>>

\* byte strings no codepoint encodes: a two-byte lead followed by 'A', the
\* overlong lead C0, the byte FF, a three-byte sequence cut short by 'A',
\* and a continuation byte on its own
Malformed ==
    { <<195, 65>>, <<192>>, <<255>>, <<224, 160, 65>>, <<128>> }

NextUtf8 ==
    \/ \E u8 \in {Utf8(c) : c \in Codepoints} \cup Malformed :
          room = MaxSeq /\ InputBuf(u8)
    \/ Reset
    \/ HardReset

SpecUtf8 == InitUtf8 /\ [][NextUtf8]_vars

(* ---------------------------- status reports --------------------------- *)
\* the byte prefixes a run starts after: nothing, and CUP to row 10,
\* column 2 (CSI 10 ; 2 H)
DsrPrefixes == { <<>>, <<27, 91, 49, 48, 59, 50, 72>> }

InitDsr == \E p \in DsrPrefixes : Start(Feed(tsm_vte_new, p), p)

\* ESC, '[', '5', '6', '7', 'n' (CSI 5 n, CSI 6 n, CSI 7 n, CSI n), the
\* letter 'A' and LF, which move the cursor
DsrBytes == {27, 91, 53, 54, 55, 110, 65, 10}

NextDsr ==
    \/ \E b \in DsrBytes : Input(b)
    \/ Reset
    \/ HardReset

SpecDsr == InitDsr /\ [][NextDsr]_vars

(* --------------------------- alternate buffer -------------------------- *)
\* modes 1049 and 1048 set and reset (CSI ? 1049 h, CSI ? 1049 l,
\* CSI ? 1048 h, CSI ? 1048 l), DECSC and DECRC, CUP to the second row and
\* column, the letter 'A' and LF, each fed as one buffer
AltSeqs ==
    { <<27, 91, 63, 49, 48, 52, 57, 104>>, <<27, 91, 63, 49, 48, 52, 57, 108>>,
      <<27, 91, 63, 49, 48, 52, 56, 104>>, <<27, 91, 63, 49, 48, 52, 56, 108>>,
      <<27, 55>>, <<27, 56>>, <<27, 91, 50, 59, 50, 72>>, <<65>>, <<10>> }

NextAlt ==
    \/ \E s \in AltSeqs : InputBuf(s)
    \/ Reset
    \/ HardReset

SpecAlt == Init /\ [][NextAlt]_vars

(* ------------------ the alternate-screen private modes ------------------ *)
\* CSI ? n final as one buffer, n given as its digits
DecMode(n, final) == <<27, 91, 63>> \o n \o <<final>>

\* the digits of 47, 1047, 1048 and 1049
TiteModes == {<<52, 55>>, <<49, 48, 52, 55>>, <<49, 48, 52, 56>>,
              <<49, 48, 52, 57>>}

\* the four modes set and reset, CUP to the second row and column,
\* DECKPAM (ESC =) and SRM reset (CSI 12 l, local echo), each fed as one
\* buffer
TiteBufs ==
    { DecMode(n, f) : n \in TiteModes, f \in {104, 108} }
        \cup { <<27, 91, 50, 59, 50, 72>>, <<27, 61>>,
               <<27, 91, 49, 50, 108>> }

\* Alt with a cursor key, and Alt with a key that sends nothing
TiteKeys == { <<"Up", {"ALT"}, -1>>, <<"Shift_L", {"ALT"}, -1>> }

NextTite ==
    \/ \E s \in TiteBufs : InputBuf(s)
    \/ \E k \in TiteKeys : Keyboard(k[1], "NoSymbol", k[2], k[3])
    \/ Reset
    \/ HardReset

SpecTite == Init /\ [][NextTite]_vars

(* -------------------------- character mapping -------------------------- *)
\* the codepoints printed: 'q', space, DEL, U+00A0, U+00F1, U+00FF and
\* U+20AC
MapCodepoints == {113, 32, 127, 160, 241, 255, 8364}

\* the buffers fed: SO, SI, SS2 (ESC N), SS3 (ESC O), ESC * 0 (G2 becomes
\* DEC special graphics), LS2R (ESC }) and one printed codepoint
MapBufs ==
    { <<14>>, <<15>>, <<27, 78>>, <<27, 79>>, <<27, 42, 48>>, <<27, 125>> }
       \cup { Utf8(v) : v \in MapCodepoints }

NextMap ==
    \/ \E u8 \in MapBufs : InputBuf(u8)
    \/ Reset
    \/ HardReset

SpecMap == Init /\ [][NextMap]_vars

(* ------------------------ 7-bit and 8-bit input ------------------------- *)
\* single bytes fed: ESC, '1', 'A', 'm', and with the top bit set 0x9B,
\* 0xC1, 0xF1
CompatBytes == {27, 49, 65, 109, 155, 193, 241}

\* the buffers fed: DECSCL CSI 61 p and CSI 62 p, CSI 63 ; 1 p, and one
\* of the single bytes
CompatBufs ==
    { <<27, 91, 54, 49, 112>>, <<27, 91, 54, 50, 112>>,
      <<27, 91, 54, 51, 59, 49, 112>> }
       \cup { <<b>> : b \in CompatBytes }

NextCompat ==
    \/ \E u8 \in CompatBufs : InputBuf(u8)
    \/ Reset
    \/ HardReset

SpecCompat == Init /\ [][NextCompat]_vars

(* ------------------------------ cursor keys ----------------------------- *)
\* the cursor keys and the final byte of their sequences
CursorKeys ==
    { <<"Up", 65>>, <<"Down", 66>>, <<"Right", 67>>, <<"Left", 68>>,
      <<"Home", 72>>, <<"End", 70>> }

CursorMods == { {}, {"SHIFT"}, {"CONTROL"}, {"ALT"}, {"CONTROL", "ALT"} }

\* the buffers fed: DECCKM set (CSI ? 1 h) and reset (CSI ? 1 l), KAM set
\* (CSI 2 h, no DEC mode), DECSTR (CSI ! p), RIS (ESC c) and 'A'
KeyBufs ==
    { <<27, 91, 63, 49, 104>>, <<27, 91, 63, 49, 108>>, <<27, 91, 50, 104>>,
      <<27, 91, 33, 112>>, <<27, 99>>, <<65>> }

\* a key arrives with its ASCII-layout keysym, which is the key itself or
\* unknown
NextKeys ==
    \/ \E u8 \in KeyBufs : InputBuf(u8)
    \/ \E k \in CursorKeys, m \in CursorMods, a \in {"NoSymbol", "same"} :
          Keyboard(k[1], IF a = "same" THEN k[1] ELSE a, m, -1)
    \/ Reset
    \/ HardReset

SpecKeys == Init /\ [][NextKeys]_vars

(* ------------------------ modes and screen flags ------------------------ *)
\* the buffers fed: DECOM set with DECAWM reset and the reverse, DECOM and
\* DECAWM alone, IRM, DECSCNM and DECTCEM set and reset, DECSC, DECRC,
\* DECSTR and RIS
ModeBufs ==
    { <<27, 91, 63, 54, 104, 27, 91, 63, 55, 108>>,
      <<27, 91, 63, 54, 108, 27, 91, 63, 55, 104>>,
      <<27, 91, 63, 54, 104>>, <<27, 91, 63, 55, 108>>,
      <<27, 91, 52, 104>>, <<27, 91, 52, 108>>,
      <<27, 91, 63, 53, 104>>, <<27, 91, 63, 53, 108>>,
      <<27, 91, 63, 50, 53, 108>>, <<27, 91, 63, 50, 53, 104>>,
      <<27, 55>>, <<27, 56>>, <<27, 91, 33, 112>>, <<27, 99>> }

NextModes ==
    \/ \E u8 \in ModeBufs : InputBuf(u8)
    \/ Reset
    \/ HardReset

SpecModes == Init /\ [][NextModes]_vars

(* ------------------- escape sequences with intermediates --------------- *)
\* intermediates outside the recognised set: '#', '-', and '#' '%'
PlainInts == { <<35>>, <<45>>, <<35, 37>> }

\* intermediates with a recognised byte among them: '!', and '#' '('
FlaggedInts == { <<33>>, <<35, 40>> }

\* the final bytes: DECRC, DECSC, RIS, SS2, DECID, LS1R and the designator
\* of the special graphics set
EscFinals == {56, 55, 99, 78, 90, 126, 48}

\* the buffers fed: bold red (CSI 1 ; 3 1 m), origin mode (CSI ? 6 h), a
\* cursor move (CSI 2 ; 2 H), SO, and ESC, intermediates, final byte
EscBufs ==
    { <<27, 91, 49, 59, 51, 49, 109>>, <<27, 91, 63, 54, 104>>,
      <<27, 91, 50, 59, 50, 72>>, <<14>> }
    \cup { <<27>> \o i \o <<f>> :
              i \in {<<>>} \cup PlainInts \cup FlaggedInts, f \in EscFinals }

NextEsc == \E u8 \in EscBufs : InputBuf(u8)

SpecEsc == Init /\ [][NextEsc]_vars

(* ------------------------ ignored control sequences -------------------- *)
\* the openers: CSI, CSI 1, CSI 4, CSI ? 2 5 and CSI SPACE
IgnoreOpeners ==
    { <<27, 91>>, <<27, 91, 49>>, <<27, 91, 52>>, <<27, 91, 63, 50, 53>>,
      <<27, 91, 32>> }

\* the bytes fed one per buffer: the parameter bytes '1' ';' ':' '?' '<',
\* the intermediates SPACE and '!', LF, and the final bytes m h c A p
IgnoreBytes ==
    {49, 59, 58, 63, 60, 32, 33, 10, 109, 104, 99, 65, 112}

NextIgnore ==
    \E u8 \in IgnoreOpeners \cup { <<b>> : b \in IgnoreBytes } : InputBuf(u8)

SpecIgnore == Init /\ [][NextIgnore]_vars

(* ------------------------ DCS and ignored strings ----------------------- *)
\* the codepoints fed one per buffer: ENQ, BEL, SO, space, '1', ':', 'm',
\* DEL,
\* U+00E9, and the bytes that preempt in any state CAN and ST
DcsCodepoints == {5, 7, 14, 32, 49, 58, 109, 127, 233, 24, 156}

\* the openers: ESC P and U+0090 (DCS), ESC X (SOS)
DcsOpeners == { <<27, 80>>, Utf8(144), <<27, 88>> }

NextDcs ==
    \/ \E u8 \in DcsOpeners \cup { Utf8(c) : c \in DcsCodepoints } :
          InputBuf(u8)
    \/ \E cb \in BOOLEAN : room = MaxSeq /\ SetOscCb(cb)
    \/ \E cb \in BOOLEAN : room = MaxSeq /\ SetBellCb(cb)

SpecDcs == Init /\ [][NextDcs]_vars

(* ----------------------------- failing calls ---------------------------- *)
\* the buffers fed: bold red (CSI 1 ; 31 m), 'A', and an OSC string left
\* open (ESC ] a)
FailBufs == { SgrBytes(<<1, 31>>), <<65>>, <<27, 93, 97>> }

NullOps == {"null_input", "null_reset", "null_hard_reset", "null_keyboard"}

NextFail ==
    \/ \E u8 \in FailBufs : InputBuf(u8)
    \/ \E inst \in BOOLEAN, name \in {"NULL", "custom"}, alloc \in BOOLEAN :
          SetPaletteEntry(inst, name, alloc)
    \/ \E inst \in BOOLEAN, p \in {<<>>, GreyPalette}, alloc \in BOOLEAN :
          SetCustomPaletteEntry(inst, p, alloc)
    \/ \E out \in BOOLEAN, scr \in BOOLEAN, cb \in BOOLEAN, alloc \in BOOLEAN :
          NewEntry(out, scr, cb, alloc)
    \/ \E op \in NullOps : NullCall(op)

SpecFail == Init /\ [][NextFail]_vars

(* ----------------------------- OSC strings ----------------------------- *)
\* the byte prefixes a run starts after: nothing, an unfinished CSI 1, and
\* an OSC string opened by ESC ] that already holds 125 bytes
OscPrefixes == { <<>>, <<27, 91, 49>>, <<27, 93>> \o [i \in 1..125 |-> 97] }

InitOsc == \E p \in OscPrefixes : Start(FeedRun(tsm_vte_new, p), p)

\* the buffers fed: 'a', U+00E9, U+20AC, the C1 control U+0085 and the
\* noncharacter U+FFFF in UTF-8, the terminators BEL, ST (U+009C) and
\* ESC \, the openers ESC ] and U+009D, ESC alone, CAN and SUB
OscBufs ==
    { <<97>>, Utf8(233), Utf8(8364), Utf8(133), Utf8(65535),
      <<7>>, Utf8(156), <<27, 92>>, <<27, 93>>, Utf8(157), <<27>>,
      <<24>>, <<26>> }

\* the callbacks are registered or removed before any byte is fed
NextOsc ==
    \/ \E u8 \in OscBufs : InputBuf(u8)
    \/ \E cb \in BOOLEAN : room = MaxSeq /\ SetOscCb(cb)
    \/ \E cb \in BOOLEAN : room = MaxSeq /\ SetBellCb(cb)

SpecOsc == InitOsc /\ [][NextOsc]_vars


(* ============================ properties =============================== *)
\* the actions of kind a in the log of the last call
ActsOf(a) == {i \in 1..Len(obs.acts) : obs.acts[i].act = a}

\* the last call fed the single byte b to the parser
Fed(b) == obs.op = "input" /\ obs.arg = <<b>>

\* C1: in every parser state, CAN (0x18) or SUB (0x1A) performs EXECUTE for
\* that byte and leaves the parser in GROUND, and ESC (0x1B) leaves it in
\* ESC with the parameter vector and the intermediate flags cleared; the
\* interrupted sequence is never dispatched.
C1_InterruptAnywhere ==
    /\ \A b \in {24, 26} :
         Fed(b) =>
           /\ vte.state = "GROUND"
           /\ \E i \in ActsOf("EXECUTE") : obs.acts[i].data = b
           /\ Cardinality(ActsOf("EXECUTE")) = 1
    /\ Fed(27) =>
           /\ vte.state = "ESC"
           /\ vte.csi_argc = 0
           /\ \A i \in 0..(CSI_ARG_MAX - 1) : vte.csi_argv[i] = -1
           /\ vte.csi_flags = {}
    /\ \A b \in {24, 26, 27} :
         Fed(b) =>
           \A i \in 1..Len(obs.acts) :
             obs.acts[i].act \notin
               {"CSI_DISPATCH", "ESC_DISPATCH", "PRINT", "PARAM", "COLLECT",
                "OSC_COLLECT"}

\* a control sequence with a parameter was cut short by CAN
C1_Witness ==
    /\ Fed(24)
    /\ obs.pre_state = "CSI_PARAM"
    /\ vte.state = "GROUND"
    /\ hist = <<27, 91, 49, 24>>

\* the numbers a parameter string (digits and ';') denotes, read as plain
\* decimal numbers separated by ';'
RECURSIVE ParamsOf(_)
ParamsOf(s) ==
    IF s = <<>> THEN <<0>>
    ELSE LET r == ParamsOf(SubSeq(s, 1, Len(s) - 1))
             c == s[Len(s)]
         IN  IF c = 59 THEN Append(r, 0)
             ELSE [r EXCEPT ![Len(r)] = @ * 10 + (c - 48)]

\* h is ESC [ p1 ; ... ; pn F with 1 <= n <= 16, every pi a non-empty digit
\* string of value at most 65535 and F a final byte
WellFormedCsi(h) ==
    /\ Len(h) >= 4
    /\ h[1] = 27 /\ h[2] = 91
    /\ h[Len(h)] \in 64..126
    /\ \A i \in 3..(Len(h) - 1) : h[i] \in (48..57) \cup {59}
    /\ h[3] # 59 /\ h[Len(h) - 1] # 59
    /\ \A i \in 3..(Len(h) - 2) : ~(h[i] = 59 /\ h[i + 1] = 59)
    /\ Len(ParamsOf(SubSeq(h, 3, Len(h) - 1))) <= CSI_ARG_MAX
    /\ \A i \in 1..Len(ParamsOf(SubSeq(h, 3, Len(h) - 1))) :
         ParamsOf(SubSeq(h, 3, Len(h) - 1))[i] <= 65535

\* C2: starting in GROUND, a well-formed ESC [ p1 ; ... ; pn F causes
\* exactly one CSI dispatch of F with csi_argc = n, csi_argv[i-1] = pi and
\* every remaining slot -1, and leaves the parser in GROUND, where a
\* printable byte is printed; ESC [ 1 ; 3 1 m sets bold and foreground RED.
C2_CsiDispatch ==
    /\ (obs.op = "input" /\ WellFormedCsi(hist)) =>
         LET ps == ParamsOf(SubSeq(hist, 3, Len(hist) - 1)) IN
         /\ Cardinality(ActsOf("CSI_DISPATCH")) = 1
         /\ \A i \in ActsOf("CSI_DISPATCH") : obs.acts[i].data = hist[Len(hist)]
         /\ vte.csi_argc = Len(ps)
         /\ \A i \in 1..CSI_ARG_MAX :
              vte.csi_argv[i - 1] = IF i <= Len(ps) THEN ps[i] ELSE -1
         /\ vte.state = "GROUND"
    /\ (obs.op = "input" /\ hist = <<27, 91, 49, 59, 51, 49, 109>>) =>
         /\ vte.csi_argv[0] = 1 /\ vte.csi_argv[1] = 31
         /\ vte.cattr.bold = 1
         /\ vte.cattr.fccode = 1
    /\ (obs.op = "input" /\ obs.pre_state = "GROUND"
            /\ obs.arg[1] \in 32..126) =>
         obs.acts = <<[act |-> "PRINT", data |-> obs.arg[1]]>>

\* sixteen parameters were dispatched
C2_Witness ==
    /\ obs.op = "input"
    /\ WellFormedCsi(hist)
    /\ Len(hist) = 34
    /\ vte.csi_argc = 16
    /\ vte.csi_argv[15] = 1
    /\ vte.state = "GROUND"

\* C3: csi_argc never exceeds 16: a ';' advances the index only while it
\* is below 16, the increment before a CSI dispatch saturates at 16, and a
\* digit or ';' arriving with the index at 16 changes no parameter.
C3_Step ==
    /\ vte'.csi_argc <= CSI_ARG_MAX
    /\ (obs'.op = "input" /\ vte.state = "CSI_PARAM"
            /\ vte.csi_argc = CSI_ARG_MAX
            /\ obs'.arg[1] \in (48..57) \cup {59}) =>
         /\ vte'.csi_argc = CSI_ARG_MAX
         /\ vte'.csi_argv = vte.csi_argv
    /\ (obs'.op = "input" /\ vte.state = "CSI_PARAM"
            /\ vte.csi_argc = CSI_ARG_MAX
            /\ obs'.arg[1] \in 64..126) =>
         /\ vte'.csi_argc = CSI_ARG_MAX

C3_ArgcBounded == [][C3_Step]_vars

\* a digit arrived with the index at 16
C3_Witness ==
    /\ Fed(49)
    /\ obs.pre_state = "CSI_PARAM"
    /\ vte.csi_argc = CSI_ARG_MAX
    /\ obs.acts = <<[act |-> "PARAM", data |-> 49]>>

\* C4: after any sequence of input calls every element of the CSI parameter
\* vector is in [-1, 65535], whatever the length of the digit strings.
\* do_param tests the slot against 0xffff before it multiplies, so a slot
\* holding 6554..65535 takes one more digit and ends up to 655359.
C4_Claimed ==
    \A i \in 0..(CSI_ARG_MAX - 1) :
        vte.csi_argv[i] >= -1 /\ vte.csi_argv[i] <= 65535

GSlots == {"g0", "g1", "g2", "g3"}

\* C5: in every reachable state GL and GR, and the GL and GR held in the
\* saved state, each designate one of the slots G0..G3, and a pending
\* single shift designates G2 or G3.
C5_GsetsDesignated ==
    /\ vte.gl \in GSlots
    /\ vte.gr \in GSlots
    /\ vte.saved_state.gl \in GSlots
    /\ vte.saved_state.gr \in GSlots
    /\ vte.glt \in {"NULL", "g2", "g3"}
    /\ vte.grt \in {"NULL", "g2", "g3"}

\* SO, DECSC, LS2, LS3R and SS3 have all acted
C5_Witness ==
    /\ vte.gl = "g2"
    /\ vte.gr = "g3"
    /\ vte.glt = "g3"
    /\ vte.saved_state.gl = "g1"
    /\ vte.saved_state.gr = "g1"

\* C6: after every PRINT action, whatever the printed codepoint, no single
\* shift is pending.  vte_map clears the GL single shift only for
\* codepoints 33..126, so space, DEL, U+00A0 and everything from U+00FF up
\* leave it pending for a later codepoint.
C6_Claimed ==
    (obs.op = "input" /\ ActsOf("PRINT") # {}) =>
        (vte.glt = "NULL" /\ vte.grt = "NULL")

\* C7: the re-entry counter has the same value when an input call returns
\* as it had when the call was made, for top-level calls and for the
\* nested local-echo feed alike, and it is 0 whenever no call is in
\* progress.
C7_ParseCntRestored ==
    /\ vte.parse_cnt = 0
    /\ \A i \in 1..Len(obs.calls) : obs.calls[i].post = obs.calls[i].pre

\* Alt+c was echoed as ESC c: two nested feeds, the second a hard reset
C7_Witness ==
    /\ obs.op = "keyboard"
    /\ "SEND_RECEIVE_MODE" \notin obs.pre_flags
    /\ "SEND_RECEIVE_MODE" \in vte.flags
    /\ Len(obs.calls) = 2
    /\ obs.calls[2].u8 = <<99>>
    /\ \E i \in 1..Len(obs.scr) : obs.scr[i][1] = "erase_screen"

\* C8: a write made while an input call is in progress is never fed back
\* through the parser; an input call made by the pty contains no other
\* input call, and the only input calls inside handle_keyboard are the
\* local-echo feeds of its one write, none of them inside another.
C8_NoReentry ==
    /\ \A i \in 1..Len(obs.writes) :
         obs.writes[i].cnt > 0 => ~obs.writes[i].echo
    /\ \A i \in 1..Len(obs.calls) : obs.calls[i].pre = 0
    /\ obs.op = "input" => Len(obs.calls) = 1
    /\ obs.op = "keyboard" =>
         /\ Len(obs.calls) <= 2
         /\ obs.calls # <<>> =>
              (obs.writes # <<>> /\ obs.writes[Len(obs.writes)].echo)
    /\ obs.op \in {"reset", "hard_reset"} => obs.calls = <<>>

\* Ctrl+E was echoed as ENQ and the ACK it provoked went to the write
\* callback only
C8_Witness ==
    /\ obs.op = "keyboard"
    /\ Len(obs.writes) = 2
    /\ obs.writes[1] = [u8 |-> <<6>>, cnt |-> 1, echo |-> FALSE, esc |-> FALSE]
    /\ obs.writes[2].u8 = <<5>>
    /\ obs.writes[2].echo
    /\ obs.out = << <<6>>, <<5>> >>

\* C9: a key's payload is written once, from outside any input call.  With
\* SEND_RECEIVE_MODE off it is fed to the input pipeline, after a feed of
\* 0x1B when the prepend-escape flag is set, and reaches the write callback
\* exactly once; with SEND_RECEIVE_MODE on it reaches the write callback
\* only and neither the parser nor the screen changes.
C9_Step ==
    (obs'.op = "keyboard" /\ obs'.ret) =>
        LET ws  == obs'.writes
            p   == ws[Len(ws)].u8
            alt == "ALT" \in obs'.arg[3]
            fed(u8) == [u8 |-> u8, pre |-> 0, post |-> 0]
        IN  /\ Len(ws) >= 1
            /\ ws[Len(ws)].cnt = 0
            /\ \A i \in 1..(Len(ws) - 1) : ws[i].cnt > 0
            /\ "SEND_RECEIVE_MODE" \notin vte.flags =>
                 /\ obs'.calls = (IF alt THEN <<fed(<<27>>)>> ELSE <<>>)
                                     \o <<fed(p)>>
                 /\ obs'.out[Len(obs'.out)] = p
                 /\ Cardinality({i \in 1..Len(obs'.out) : obs'.out[i] = p}) = 1
            /\ "SEND_RECEIVE_MODE" \in vte.flags =>
                 /\ obs'.calls = <<>>
                 /\ obs'.out = (IF alt THEN << <<27>> >> ELSE <<>>) \o <<p>>
                 /\ obs'.acts = <<>>
                 /\ obs'.scr = <<>>
                 /\ vte' = vte
                 /\ con' = con

C9_LocalEcho == [][C9_Step]_vars

\* Alt+Up was pressed with SEND_RECEIVE_MODE off: ESC and ESC [ A were fed
\* and ESC [ A was written
C9_Witness ==
    /\ obs.op = "keyboard"
    /\ obs.arg[1] = "Up"
    /\ "SEND_RECEIVE_MODE" \notin obs.pre_flags
    /\ Len(obs.calls) = 2
    /\ obs.calls[1].u8 = <<27>>
    /\ obs.calls[2].u8 = <<27, 91, 65>>
    /\ obs.out = << <<27>>, <<27, 91, 65>> >>

\* C10: for every consumed keyboard event with Alt the write callback
\* receives exactly one 0x1B, immediately followed by the key's own bytes,
\* and the prepend-escape flag is clear on return.  With local echo the
\* flag set for the key is consumed by whatever is written first: a reply
\* provoked by the echoed bytes takes the 0x1B, and a reset run by the
\* echoed bytes drops it.
C10_Claimed ==
    (obs.op = "keyboard" /\ obs.ret /\ "ALT" \in obs.arg[3]) =>
        LET p    == obs.writes[Len(obs.writes)].u8
            escs == {i \in 1..Len(obs.out) : obs.out[i] = <<27>>}
        IN  /\ Cardinality(escs) = 1
            /\ \A i \in escs : i < Len(obs.out) /\ obs.out[i + 1] = p
            /\ "PREPEND_ESCAPE" \notin vte.flags

\* C11: when DECRC runs after a DECSC, with no reset and no palette change
\* in between, the cursor, the current attribute, GL, GR, the auto-wrap
\* flag and the origin flag are what they were when DECSC ran, whatever
\* moved the cursor, changed the attribute, invoked other sets or toggled
\* DECAWM and DECOM in between, and the screen's AUTO_WRAP and REL_ORIGIN
\* flags match the two restored flags.
C11_SaveRestore ==
    (Dispatched(obs, 56) /\ mark.set) =>
        /\ con.cursor_x = mark.x
        /\ con.cursor_y = mark.y
        /\ vte.cattr = mark.cattr
        /\ vte.gl = mark.gl
        /\ vte.gr = mark.gr
        /\ ("AUTO_WRAP_MODE" \in vte.flags) = mark.wrap
        /\ ("ORIGIN_MODE" \in vte.flags) = mark.origin
        /\ ("AUTO_WRAP" \in con.flags) = mark.wrap
        /\ ("REL_ORIGIN" \in con.flags) = mark.origin

\* DECSC ran with SO in effect and auto-wrap on; DECAWM was then switched
\* off and G0 invoked again, and DECRC brought both back
C11_Witness ==
    /\ Dispatched(obs, 56)
    /\ mark.set
    /\ mark.gl = "g1"
    /\ mark.wrap
    /\ "AUTO_WRAP_MODE" \notin obs.pre_flags
    /\ vte.gl = "g1"
    /\ "AUTO_WRAP_MODE" \in vte.flags

\* the call logged in o was a hard reset: the API call, or the one buffer
\* ESC c
HardResetDone(o) ==
    \/ o.op = "hard_reset"
    \/ /\ o.op = "input"
       /\ o.arg = <<27, 99>>
       /\ \E i \in 1..Len(o.scr) : o.scr[i][1] = "clear_sb"

C12_Step ==
    (HardResetDone(obs) /\ HardResetDone(obs')) =>
        (vte' = vte /\ con' = con)

\* C12: a hard reset that directly follows a hard reset, each by the API
\* call or by ESC c, leaves the instance and the screen exactly as the
\* first one left them.  The reset leaves the CSI parameter vector and its
\* count alone, so after the API call they still hold the last sequence's
\* parameters, and the ESC of a following ESC c clears them.
C12_Claimed == [][C12_Step]_vars

\* the call logged in o ran a soft reset: the API call, DECSTR, or a hard
\* reset by the API call or ESC c
SoftResetDone(o) ==
    \/ o.op \in {"reset", "hard_reset"}
    \/ o.op = "input" /\ o.arg \in {<<27, 91, 33, 112>>, <<27, 99>>}

\* C13: after a soft reset (the API call, CSI ! p, or the reset part of a
\* hard reset) the parser is in GROUND, the flag word holds exactly
\* TEXT_CURSOR, AUTO_WRAP, SEND_RECEIVE, AUTO_REPEAT and
\* BACKGROUND_COLOR_ERASE, G0 and G2 are the unicode-lower table, G1 and G3
\* the unicode-upper table, GL is G0, GR is G1, no single shift is pending
\* and the current attribute equals the default attribute.
C13_SoftReset ==
    SoftResetDone(obs) =>
        /\ ResetIn(obs)
        /\ vte.state = "GROUND"
        /\ vte.flags = {"TEXT_CURSOR_MODE", "AUTO_WRAP_MODE",
                        "SEND_RECEIVE_MODE", "AUTO_REPEAT_MODE",
                        "BACKGROUND_COLOR_ERASE_MODE"}
        /\ vte.g0 = "unicode_lower" /\ vte.g2 = "unicode_lower"
        /\ vte.g1 = "unicode_upper" /\ vte.g3 = "unicode_upper"
        /\ vte.gl = "g0" /\ vte.gr = "g1"
        /\ vte.glt = "NULL" /\ vte.grt = "NULL"
        /\ vte.cattr = vte.def_attr

\* DECSTR arrived with DECCKM, DECOM and IRM set and an SS2 pending
C13_Witness ==
    /\ obs.op = "input"
    /\ obs.arg = <<27, 91, 33, 112>>
    /\ {"CURSOR_KEY_MODE", "ORIGIN_MODE", "INSERT_REPLACE_MODE",
         "KEYPAD_APPLICATION_MODE"} \subseteq obs.pre_flags
    /\ hist = <<27, 91, 33, 112>>
    /\ vte.state = "GROUND"
    /\ vte.glt = "NULL"
    /\ "ORIGIN_MODE" \notin vte.flags

\* u8 is CSI, a string of digits and ';', and the final byte 'm'
SgrShape(u8) ==
    /\ Len(u8) >= 3
    /\ u8[1] = 27 /\ u8[2] = 91 /\ u8[Len(u8)] = 109
    /\ \A i \in 3..(Len(u8) - 1) : u8[i] \in (48..57) \cup {59}

\* the last call fed, in GROUND, one buffer CSI ... m whose parameters are
\* all among reset, bold, italic, underline, blink, inverse, red foreground
\* and blue background (an empty field read as 0)
SimpleSgrFed ==
    /\ obs.op = "input"
    /\ obs.pre_state = "GROUND"
    /\ SgrShape(obs.arg)
    /\ Len(ParamsOf(SubSeq(obs.arg, 3, Len(obs.arg) - 1))) <= CSI_ARG_MAX
    /\ \A i \in 1..Len(ParamsOf(SubSeq(obs.arg, 3, Len(obs.arg) - 1))) :
          ParamsOf(SubSeq(obs.arg, 3, Len(obs.arg) - 1))[i]
              \in {0, 1, 3, 4, 5, 7, 31, 44}

\* the current attribute is the reset attribute with the codes of ps after
\* its last 0 applied on top
ResetThenRest(ps) ==
    LET k == CHOOSE i \in 1..Len(ps) :
                 ps[i] = 0 /\ \A j \in (i + 1)..Len(ps) : ps[j] # 0
        on(c) == IF \E j \in (k + 1)..Len(ps) : ps[j] = c THEN 1 ELSE 0
    IN  /\ vte.cattr.bold = on(1)
        /\ vte.cattr.italic = on(3)
        /\ vte.cattr.underline = on(4)
        /\ vte.cattr.blink = on(5)
        /\ vte.cattr.inverse = on(7)
        /\ vte.cattr.fccode = IF on(31) = 1 THEN 1 ELSE TSM_COLOR_FOREGROUND
        /\ vte.cattr.bccode = IF on(44) = 1 THEN 4 ELSE TSM_COLOR_BACKGROUND
        /\ on(31) = 0 =>
              <<vte.cattr.fr, vte.cattr.fg, vte.cattr.fb>> =
                  <<vte.def_attr.fr, vte.def_attr.fg, vte.def_attr.fb>>
        /\ on(44) = 0 =>
              <<vte.cattr.br, vte.cattr.bg, vte.cattr.bb>> =
                  <<vte.def_attr.br, vte.def_attr.bg, vte.def_attr.bb>>

\* C14: an SGR parameter 0 at any position of the list, whatever the
\* attribute was before, sets the foreground and background codes to the
\* FOREGROUND and BACKGROUND slots with the default attribute's RGB and
\* clears bold, italic, underline, blink and inverse; the parameters after
\* it in the same list are applied on top of the reset attribute.
C14_SgrReset ==
    (SimpleSgrFed /\ WellFormedCsi(obs.arg)
        /\ \E i \in 1..Len(ParamsOf(SubSeq(obs.arg, 3, Len(obs.arg) - 1))) :
              ParamsOf(SubSeq(obs.arg, 3, Len(obs.arg) - 1))[i] = 0) =>
        ResetThenRest(ParamsOf(SubSeq(obs.arg, 3, Len(obs.arg) - 1)))

\* CSI 1 ; 0 ; 4 m arrived with bold, italic, blink, inverse, red on blue
\* in effect: underline alone is left
C14_Witness ==
    /\ obs.op = "input"
    /\ obs.arg = <<27, 91, 49, 59, 48, 59, 52, 109>>
    /\ obs.pre_cattr.italic = 1
    /\ obs.pre_cattr.fccode = 1
    /\ vte.cattr.underline = 1
    /\ vte.cattr.bold = 0
    /\ vte.cattr.italic = 0
    /\ vte.cattr.fccode = TSM_COLOR_FOREGROUND
    /\ vte.cattr.bccode = TSM_COLOR_BACKGROUND

\* C15: an empty SGR parameter resets exactly like 0, as the only
\* parameter (CSI m) and as an empty field of a longer list (CSI ; 1 m,
\* CSI 1 ; m).  csi_attribute substitutes 0 only when the list is a single
\* empty parameter; an empty field of a longer list is skipped (case -1),
\* so CSI ; 1 m after CSI 3 1 m leaves the foreground red.
C15_Claimed ==
    (SimpleSgrFed /\ ~WellFormedCsi(obs.arg)) =>
        ResetThenRest(ParamsOf(SubSeq(obs.arg, 3, Len(obs.arg) - 1)))

\* the last call fed, in GROUND, one buffer CSI k ; m ; ... m with n
\* parameters, none of them empty
ExtendedFed(k, m, n) ==
    /\ obs.op = "input"
    /\ obs.pre_state = "GROUND"
    /\ SgrShape(obs.arg)
    /\ WellFormedCsi(obs.arg)
    /\ Len(ParamsOf(SubSeq(obs.arg, 3, Len(obs.arg) - 1))) = n
    /\ ParamsOf(SubSeq(obs.arg, 3, Len(obs.arg) - 1))[1] = k
    /\ ParamsOf(SubSeq(obs.arg, 3, Len(obs.arg) - 1))[2] = m

\* the six intensities of the colour cube
Levels == <<0, 95, 135, 175, 215, 255>>

\* the RGB triple of the indexed colour i in 16..255
IndexedRgb(i) ==
    IF i < 232
    THEN <<Levels[(((i - 16) \div 36) % 6) + 1],
           Levels[(((i - 16) \div 6) % 6) + 1],
           Levels[((i - 16) % 6) + 1]>>
    ELSE <<(i - 232) * 10 + 8, (i - 232) * 10 + 8, (i - 232) * 10 + 8>>

\* C16: CSI 38 ; 5 ; i m with i in 16..231 sets the foreground code to -1
\* and red, green, blue to levels[((i-16)/36)%6], levels[((i-16)/6)%6],
\* levels[(i-16)%6] with levels = 00 5F 87 AF D7 FF; with i in 232..255 it
\* sets the code to -1 and red = green = blue = (i-232)*10+8; CSI 48 ; 5 ; i m
\* does the same for the background; the values are in cattr when the
\* call returns, after the closing to_rgb.
C16_IndexedColour ==
    /\ ExtendedFed(38, 5, 3) =>
          LET i == ParamsOf(SubSeq(obs.arg, 3, Len(obs.arg) - 1))[3] IN
          i \in 16..255 =>
              /\ vte.cattr.fccode = -1
              /\ <<vte.cattr.fr, vte.cattr.fg, vte.cattr.fb>> = IndexedRgb(i)
    /\ ExtendedFed(48, 5, 3) =>
          LET i == ParamsOf(SubSeq(obs.arg, 3, Len(obs.arg) - 1))[3] IN
          i \in 16..255 =>
              /\ vte.cattr.bccode = -1
              /\ <<vte.cattr.br, vte.cattr.bg, vte.cattr.bb>> = IndexedRgb(i)

\* CSI 48 ; 5 ; 110 m (cube entry 2,3,4) arrived with a red bold
\* foreground and a blue background
C16_Witness ==
    /\ obs.op = "input"
    /\ obs.arg = <<27, 91, 52, 56, 59, 53, 59, 49, 49, 48, 109>>
    /\ obs.pre_cattr.bccode = 4
    /\ vte.cattr.bccode = -1
    /\ <<vte.cattr.br, vte.cattr.bg, vte.cattr.bb>> = <<135, 175, 215>>
    /\ vte.cattr.fccode = 1

\* C17: for r, g, b in 0..255, CSI 38 ; 2 ; r ; g ; b m sets the foreground
\* code to -1 and (fr, fg, fb) to (r, g, b) and leaves the background as it
\* was, CSI 48 ; 2 ; r ; g ; b m does the same for the background and leaves
\* the foreground as it was; the three parameters are consumed, so the
\* renditions are what they were before, whatever SGR code r, g or b
\* would be on its own.
C17_DirectColour ==
    /\ ExtendedFed(38, 2, 5) =>
          LET ps == ParamsOf(SubSeq(obs.arg, 3, Len(obs.arg) - 1)) IN
          (\A j \in 3..5 : ps[j] \in 0..255) =>
              vte.cattr = [obs.pre_cattr EXCEPT !.fccode = -1, !.fr = ps[3],
                                                !.fg = ps[4], !.fb = ps[5]]
    /\ ExtendedFed(48, 2, 5) =>
          LET ps == ParamsOf(SubSeq(obs.arg, 3, Len(obs.arg) - 1)) IN
          (\A j \in 3..5 : ps[j] \in 0..255) =>
              vte.cattr = [obs.pre_cattr EXCEPT !.bccode = -1, !.br = ps[3],
                                                !.bg = ps[4], !.bb = ps[5]]

\* CSI 38 ; 2 ; 0 ; 1 ; 48 m arrived with bold, italic, underline, blink,
\* inverse and a blue background in effect: all of them are still there
C17_Witness ==
    /\ obs.op = "input"
    /\ obs.arg = <<27, 91, 51, 56, 59, 50, 59, 48, 59, 49, 59, 52, 56, 109>>
    /\ obs.pre_cattr.bold = 1
    /\ obs.pre_cattr.blink = 1
    /\ obs.pre_cattr.bccode = 4
    /\ vte.cattr.fccode = -1
    /\ <<vte.cattr.fr, vte.cattr.fg, vte.cattr.fb>> = <<0, 1, 48>>
    /\ vte.cattr.blink = 1
    /\ vte.cattr.bccode = 4

\* entry c of the palette the name and the custom table select
ActiveEntry(c) == palette_table([vte EXCEPT !.palette = get_palette(vte)])[c]

\* C18: after every public call the default attribute has the codes
\* FOREGROUND and BACKGROUND with the RGB of those palette entries; when
\* the current attribute's foreground code c is >= 0 its RGB is the active
\* palette's entry c (entry c + 8 when bold is set and c < 8), and when its
\* background code c is >= 0 its RGB is the palette's entry c; across SGR,
\* indexed colours below 16, DECRC, resets and palette changes.
C18_PaletteResolved ==
    /\ vte.def_attr.fccode = TSM_COLOR_FOREGROUND
    /\ vte.def_attr.bccode = TSM_COLOR_BACKGROUND
    /\ <<vte.def_attr.fr, vte.def_attr.fg, vte.def_attr.fb>> =
           ActiveEntry(TSM_COLOR_FOREGROUND)
    /\ <<vte.def_attr.br, vte.def_attr.bg, vte.def_attr.bb>> =
           ActiveEntry(TSM_COLOR_BACKGROUND)
    /\ vte.cattr.fccode < TSM_COLOR_NUM
    /\ vte.cattr.bccode < TSM_COLOR_NUM
    /\ vte.cattr.fccode >= 0 =>
          <<vte.cattr.fr, vte.cattr.fg, vte.cattr.fb>> =
              ActiveEntry(IF vte.cattr.bold = 1 /\ vte.cattr.fccode < 8
                          THEN vte.cattr.fccode + 8 ELSE vte.cattr.fccode)
    /\ vte.cattr.bccode >= 0 =>
          <<vte.cattr.br, vte.cattr.bg, vte.cattr.bb>> =
              ActiveEntry(vte.cattr.bccode)

\* DECRC brought back bold red, saved under the default palette, after the
\* solarized palette was selected: the RGB is solarized bright red
C18_Witness ==
    /\ Dispatched(obs, 56)
    /\ vte.palette_name = "solarized"
    /\ vte.cattr.fccode = 1
    /\ vte.cattr.bold = 1
    /\ <<vte.saved_state.cattr.fr, vte.saved_state.cattr.fg,
          vte.saved_state.cattr.fb>> = color_palette[9]
    /\ <<vte.cattr.fr, vte.cattr.fg, vte.cattr.fb>> =
           color_palette_solarized[9]
    /\ color_palette[9] # color_palette_solarized[9]

\* the last call fed, in GROUND and in UTF-8 mode, the encoding of c
EncodingFed(c) ==
    /\ obs.op = "input"
    /\ obs.pre_state = "GROUND"
    /\ obs.pre_flags \cap {"7BIT_MODE", "8BIT_MODE"} = {}
    /\ Utf8(c) # <<>>
    /\ obs.arg = Utf8(c)

\* the last call performed the single action PRINT of c, wrote c to the
\* screen with the current attribute, and left the parser in GROUND
PrintedOnce(c) ==
    /\ obs.acts = <<[act |-> "PRINT", data |-> c]>>
    /\ obs.scr = << <<"write", c, vte.cattr>> >>
    /\ vte.cattr = obs.pre_cattr
    /\ vte.state = "GROUND"

\* C19 as claimed: in UTF-8 mode and in GROUND the encoding of every
\* codepoint up to U+10FFFF yields exactly one PRINT of it and leaves the
\* parser in GROUND, and a malformed byte sequence yields a PRINT of
\* U+FFFD.
C19_Claimed ==
    /\ \A c \in Codepoints : EncodingFed(c) => PrintedOnce(c)
    /\ (obs.op = "input" /\ obs.pre_state = "GROUND"
            /\ obs.arg \in Malformed) =>
          PrintedOnce(TSM_UCS4_REPLACEMENT)

\* C19, amended: in UTF-8 mode and in GROUND the encoding of every
\* codepoint from U+0020 to U+10FFFF that is not a C1 control
\* (U+0080..U+009F) yields exactly one PRINT of it, written to the screen
\* with the current attribute, and leaves the parser in GROUND; a byte
\* sequence the decoder rejects yields one PRINT of U+FFFD.  (C0 and C1
\* controls are executed or open a sequence, and a continuation byte on
\* its own is dropped.)
C19_Utf8Print ==
    /\ \A c \in Codepoints \ ((0..31) \cup (128..159)) :
          EncodingFed(c) => PrintedOnce(c)
    /\ (obs.op = "input" /\ obs.pre_state = "GROUND"
            /\ obs.arg \in Malformed \ {<<128>>}) =>
          PrintedOnce(TSM_UCS4_REPLACEMENT)

\* the four bytes of U+10FFFF arrived with bold red in effect
C19_Witness ==
    /\ obs.op = "input"
    /\ obs.arg = <<244, 143, 191, 191>>
    /\ obs.pre_cattr.bold = 1
    /\ obs.acts = <<[act |-> "PRINT", data |-> 1114111]>>
    /\ vte.state = "GROUND"

\* the input calls since GROUND fed exactly CSI, a parameter string and
\* 'n', and the last of them dispatched it
DsrFed ==
    /\ obs.op = "input"
    /\ Len(hist) >= 3
    /\ hist[1] = 27 /\ hist[2] = 91 /\ hist[Len(hist)] = 110
    /\ \A i \in 3..(Len(hist) - 1) : hist[i] \in (48..57) \cup {59}
    /\ obs.acts = <<[act |-> "CSI_DISPATCH", data |-> 110]>>

\* r is ESC [ row ; col R with both numbers in plain decimal
CursorReport(r, row, col) ==
    /\ WellFormedCsi(r)
    /\ r[Len(r)] = 82
    /\ ParamsOf(SubSeq(r, 3, Len(r) - 1)) = <<row, col>>
    /\ \A i \in 3..(Len(r) - 2) :
          (r[i] = 48 /\ (i = 3 \/ r[i - 1] = 59)) => r[i + 1] \in {59, 82}

\* C20: CSI 6 n received with the cursor at (x, y) writes exactly
\* ESC [ y+1 ; x+1 R to the write callback, once, with no ESC in front, and
\* does not move the cursor; CSI 5 n writes exactly ESC [ 0 n; any other
\* first parameter produces no reply.
C20_StatusReport ==
    DsrFed =>
        LET p == ParamsOf(SubSeq(hist, 3, Len(hist) - 1))[1] IN
        /\ obs.scr = <<>>
        /\ p = 6 =>
              /\ Len(obs.out) = 1
              /\ CursorReport(obs.out[1], con.cursor_y + 1, con.cursor_x + 1)
        /\ p = 5 => obs.out = << <<27, 91, 48, 110>> >>
        /\ p \notin {5, 6} => obs.out = <<>>

\* CSI 6 n arrived with the cursor in the second column of the tenth row
C20_Witness ==
    /\ DsrFed
    /\ hist = <<27, 91, 54, 110>>
    /\ con.cursor_x = 1
    /\ con.cursor_y = 9
    /\ obs.out = << <<27, 91, 49, 48, 59, 50, 82>> >>

\* the call logged in o fed the one buffer CSI ? n final
DecModeFed(o, n, final) ==
    /\ o.op = "input"
    /\ o.arg = <<27, 91, 63>> \o n \o <<final>>

C21_Step ==
    /\ "TITE_INHIBIT_MODE" \notin vte.flags
    /\ DecModeFed(obs', <<49, 48, 52, 57>>, 104) =>
          /\ vte'.alt_cursor_x = con.cursor_x
          /\ vte'.alt_cursor_y = con.cursor_y
          /\ obs'.scr = << <<"set_flags", "ALTERNATE", 0>>,
                           <<"erase_screen", FALSE, 0>> >>
          /\ vte'.saved_state = vte.saved_state
    /\ DecModeFed(obs', <<49, 48, 52, 57>>, 108) =>
          /\ obs'.scr = << <<"reset_flags", "ALTERNATE", 0>>,
                           <<"move_to", vte.alt_cursor_x, vte.alt_cursor_y>> >>
          /\ con'.cursor_x = vte.alt_cursor_x
          /\ con'.cursor_y = vte.alt_cursor_y
          /\ vte'.saved_state = vte.saved_state
    /\ \A f \in {104, 108} :
          DecModeFed(obs', <<49, 48, 52, 56>>, f) =>
              vte'.saved_state = vte.saved_state
    /\ (\A n \in {<<49, 48, 52, 56>>, <<49, 48, 52, 57>>} :
            ~DecModeFed(obs', n, 104)) =>
          /\ vte'.alt_cursor_x = vte.alt_cursor_x
          /\ vte'.alt_cursor_y = vte.alt_cursor_y
    /\ Dispatched(obs', 55) =>
          /\ vte'.saved_state.cursor_x = con.cursor_x
          /\ vte'.saved_state.cursor_y = con.cursor_y
    /\ Dispatched(obs', 56) =>
          /\ con'.cursor_x = vte.saved_state.cursor_x
          /\ con'.cursor_y = vte.saved_state.cursor_y

\* C21: CSI ? 1049 h captures the cursor position into the alternate-buffer
\* cursor save, switches to the alternate buffer and erases the screen, in
\* this order; CSI ? 1049 l switches back to the main buffer and then moves
\* the cursor to the captured position.  Nothing but ?1048 h and ?1049 h
\* changes the captured position: DECSC and DECRC work on the saved state
\* alone, and ?1048 and ?1049 leave the saved state alone.
C21_AltCursor == [][C21_Step]_vars

\* CSI ? 1049 l came back to the second row and column, captured before LF
\* moved the cursor and DECSC saved the third row
C21_Witness ==
    /\ DecModeFed(obs, <<49, 48, 52, 57>>, 108)
    /\ obs.scr = << <<"reset_flags", "ALTERNATE", 0>>, <<"move_to", 1, 1>> >>
    /\ con.cursor_x = 1
    /\ con.cursor_y = 1
    /\ vte.saved_state.cursor_y = 2

(* ------------------------------- C22 ----------------------------------- *)
\* the codepoints of the OSC buffers that have an encoding and are no
\* control
OscPrintable == {97, 233, 8364}

\* C22: the OSC buffer never holds more than 127 bytes (so the NUL written
\* at osc_arg[osc_len] lies inside the 128-byte array), and a codepoint
\* collected in OSC_STRING is appended with its whole UTF-8 encoding when
\* the length stays at most 127 and leaves the buffer as it was otherwise.
C22_Step ==
    /\ vte.osc_len <= OSC_MAX_LEN - 1
    /\ vte'.osc_len <= OSC_MAX_LEN - 1
    /\ vte'.osc_len = Len(vte'.osc_arg)
    /\ \A c \in OscPrintable :
          (obs'.op = "input" /\ obs'.arg = Utf8(c)
             /\ vte.state = "OSC_STRING")
          => /\ obs'.acts = <<[act |-> "OSC_COLLECT", data |-> c]>>
             /\ vte'.osc_arg =
                    IF vte.osc_len + Len(Utf8(c)) <= OSC_MAX_LEN - 1
                    THEN vte.osc_arg \o Utf8(c)
                    ELSE vte.osc_arg

C22_OscBounded == [][C22_Step]_vars

\* the buffer is full at 127 bytes and the three bytes of U+20AC were
\* dropped whole
C22_Witness ==
    /\ obs.op = "input"
    /\ obs.arg = Utf8(8364)
    /\ obs.pre_state = "OSC_STRING"
    /\ obs.acts = <<[act |-> "OSC_COLLECT", data |-> 8364]>>
    /\ vte.osc_len = OSC_MAX_LEN - 1
    /\ vte.osc_arg = [i \in 1..125 |-> 97] \o Utf8(233)

(* ------------------------------- C23 ----------------------------------- *)
OscOpeners == { <<27, 93>>, Utf8(157) }

OscTerminators == { <<7>>, Utf8(156), <<27, 92>> }

\* what may stand before the opener: nothing or an unfinished CSI 1
OscLeadIns == { <<>>, <<27, 91, 49>> }

\* the number of bytes of the UTF-8 encoding the byte b leads (0 for a
\* continuation byte)
LeadLen(b) ==
    CASE b < 128 -> 1 [] b \in 194..223 -> 2 [] b \in 224..239 -> 3
      [] b \in 240..244 -> 4 [] OTHER -> 0

\* the byte string m is a concatenation of whole encodings
WholeEncodings(m) ==
    \A i \in 1..Len(m) :
       IF LeadLen(m[i]) = 0
       THEN \E k \in 1..3 :
               /\ i - k >= 1
               /\ LeadLen(m[i - k]) > k
               /\ \A j \in 1..(k - 1) : LeadLen(m[i - j]) = 0
       ELSE /\ i + LeadLen(m[i]) - 1 <= Len(m)
            /\ \A j \in 1..(LeadLen(m[i]) - 1) : LeadLen(m[i + j]) = 0

\* the codepoint encoded from position i of m on
CodepointAt(m, i) ==
    CASE LeadLen(m[i]) = 1 -> m[i]
      [] LeadLen(m[i]) = 2 -> (m[i] % 32) * 64 + (m[i + 1] % 64)
      [] LeadLen(m[i]) = 3 ->
            (m[i] % 16) * 4096 + (m[i + 1] % 64) * 64 + (m[i + 2] % 64)
      [] OTHER -> (m[i] % 8) * 262144 + (m[i + 1] % 64) * 4096
                     + (m[i + 2] % 64) * 64 + (m[i + 3] % 64)

\* the codepoints the byte string m encodes
CodepointsIn(m) ==
    { CodepointAt(m, i) : i \in {j \in 1..Len(m) : LeadLen(m[j]) # 0} }

\* a payload as the claim describes it: codepoints from 0x20 up, at most
\* 127 bytes
ClaimedPayload(m) ==
    /\ Len(m) <= OSC_MAX_LEN - 1
    /\ WholeEncodings(m)
    /\ \A c \in CodepointsIn(m) : c >= 32

\* a payload of codepoints from 0x20 up that are no C1 control and that
\* the encoder has bytes for, at most 127 bytes
CollectedPayload(m) ==
    /\ ClaimedPayload(m)
    /\ \A c \in CodepointsIn(m) :
          c \notin 128..159 /\ tsm_ucs4_to_utf8(c) = Utf8(c)

Utf8Mode == vte.flags \cap {"7BIT_MODE", "8BIT_MODE"} = {}

\* the bytes of hist after the lead-in pre and a two-byte opener
AfterOpener(pre) == SubSeq(hist, Len(pre) + 3, Len(hist))

OpenedAfter(pre) ==
    /\ Utf8Mode
    /\ Len(hist) >= Len(pre) + 2
    /\ SubSeq(hist, 1, Len(pre)) = pre
    /\ SubSeq(hist, Len(pre) + 1, Len(pre) + 2) \in OscOpeners

\* the call just made ended the OSC string with payload m: the callback, if
\* one is registered, ran once with m, nothing else happened and the
\* parser is in GROUND
Delivered(m) ==
    /\ vte.state = "GROUND"
    /\ obs.osc = IF vte.osc_cb THEN <<m>> ELSE <<>>
    /\ obs.scr = <<>>
    /\ obs.out = <<>>
    /\ obs.bell = 0

\* C23 as stated: every payload of codepoints >= 0x20
C23_Claimed ==
    \A pre \in OscLeadIns, t \in OscTerminators :
       (OpenedAfter(pre) /\ Len(AfterOpener(pre)) >= Len(t))
       => LET r == AfterOpener(pre)
              m == SubSeq(r, 1, Len(r) - Len(t))
          IN  (SubSeq(r, Len(m) + 1, Len(r)) = t /\ ClaimedPayload(m))
              => Delivered(m)

\* C23: in UTF-8 mode an OSC string opened outside OSC_STRING by ESC ] or
\* U+009D, whose payload consists of codepoints >= 0x20 that are no C1
\* control and have an encoding, at most 127 bytes long, runs no callback
\* while it is collected and, terminated by BEL, ST or ESC \, runs the
\* registered callback exactly once with exactly the payload bytes, with
\* no other effect, leaving the parser in GROUND.
C23_OscDelivered ==
    \A pre \in OscLeadIns :
       OpenedAfter(pre)
       => LET r == AfterOpener(pre)
          IN  /\ CollectedPayload(r)
                 => /\ vte.state = "OSC_STRING"
                    /\ vte.osc_arg = r
                    /\ obs.osc = <<>>
              /\ \A t \in OscTerminators :
                    Len(r) >= Len(t)
                    => LET m == SubSeq(r, 1, Len(r) - Len(t))
                       IN  (SubSeq(r, Len(m) + 1, Len(r)) = t
                              /\ CollectedPayload(m))
                           => Delivered(m)

\* a 127-byte payload ending in U+00E9 was delivered at ESC \
C23_Witness ==
    /\ vte.osc_cb
    /\ hist = <<27, 93>> \o [i \in 1..125 |-> 97] \o Utf8(233) \o <<27, 92>>
    /\ obs.osc = << [i \in 1..125 |-> 97] \o Utf8(233) >>
    /\ vte.state = "GROUND"

(* ------------------------------- C24 ----------------------------------- *)
\* the symbol the claim has the codepoint v written as, given the instance
\* before the call
MappedAs(v) ==
    CASE v \in 33..126 ->
           charset_entry(gset_table(vte, IF vte.glt # "NULL" THEN vte.glt
                                         ELSE vte.gl), v - 32)
      [] v \in 161..254 -> charset_entry(gset_table(vte, vte.gr), v - 160)
      [] OTHER -> v

\* C24: a printed codepoint in 33..126 is written as the entry of the set
\* of the pending single shift, which it consumes, or else of the set in
\* GL; one in 161..254 as the entry of the set in GR; every other one
\* unchanged and without consuming the single shift.  SO puts G1 in GL
\* until SI puts G0 back, ESC N and ESC O set the single shift to G2 and
\* G3.
C24_Step ==
    /\ \A v \in MapCodepoints :
          (obs'.op = "input" /\ obs'.arg = Utf8(v))
          => /\ obs'.scr = << <<"write", MappedAs(v), vte'.cattr>> >>
             /\ vte'.glt = IF v \in 33..126 THEN "NULL" ELSE vte.glt
             /\ vte'.gl = vte.gl
             /\ vte'.gr = vte.gr
    /\ (obs'.op = "input" /\ obs'.arg = <<14>>) => vte'.gl = "g1"
    /\ (obs'.op = "input" /\ obs'.arg = <<15>>) => vte'.gl = "g0"
    /\ (obs'.op = "input" /\ obs'.arg \notin {<<14>>, <<15>>})
          => vte'.gl = vte.gl
    /\ (obs'.op = "input" /\ obs'.arg = <<27, 78>>) => vte'.glt = "g2"
    /\ (obs'.op = "input" /\ obs'.arg = <<27, 79>>) => vte'.glt = "g3"

C24_Mapped == [][C24_Step]_vars

\* with G1 in GL after SO and G2 designated DEC special graphics, a 'q'
\* after ESC N was written as the horizontal line of G2 and the single
\* shift is gone
C24_Witness ==
    /\ obs.op = "input"
    /\ obs.arg = <<113>>
    /\ obs.scr = << <<"write", 9472, vte.cattr>> >>
    /\ vte.gl = "g1"
    /\ vte.g1 = "unicode_upper"
    /\ vte.g2 = "dec_special_graphics"
    /\ vte.glt = "NULL"

(* ------------------------------- C25 ----------------------------------- *)
\* every action the call logged in o performed was handed the value d
HandedOn(o, d) == \A i \in 1..Len(o.acts) : o.acts[i].data = d

\* C25: in 7-bit mode a byte b reaches the parser as b & 0x7F; in 8-bit
\* mode it reaches the parser as b, so that 0x9B opens a CSI and 0xA1..0xFE
\* are written as entries of the set in GR.  tsm_vte_input passes a char to
\* parse_data's uint32_t parameter, so in 8-bit mode a byte from 0x80 up
\* arrives sign-extended, opens nothing and is mapped through nothing.
C25_Step ==
    \A b \in CompatBytes :
       (obs'.op = "input" /\ obs'.arg = <<b>>)
       => /\ "7BIT_MODE" \in vte.flags => HandedOn(obs', b % 128)
          /\ ("8BIT_MODE" \in vte.flags /\ "7BIT_MODE" \notin vte.flags)
             => /\ HandedOn(obs', b)
                /\ b = 155 => vte'.state = "CSI_ENTRY"
                /\ b \in 161..254
                   => obs'.scr =
                         << <<"write",
                              charset_entry(gset_table(vte, vte.gr), b - 160),
                              vte'.cattr>> >>

C25_Claimed == [][C25_Step]_vars

(* ------------------------------- C26 ----------------------------------- *)
\* the call logged in o is handle_keyboard of the cursor key k with the
\* modifiers m
CursorKeyPressed(o, k, m) ==
    /\ o.op = "keyboard"
    /\ o.arg \in { <<k[1], "NoSymbol", m, -1>>, <<k[1], k[1], m, -1>> }

\* C26: a cursor key is always consumed; its sequence is ESC [ 1 ; 5 X with
\* Control whatever DECCKM is, else ESC O X with DECCKM set and ESC [ X with
\* DECCKM clear (after the ESC that Alt prepends), and DECCKM is set
\* exactly by CSI ? 1 h and cleared exactly by CSI ? 1 l and by a reset.
C26_Step ==
    /\ \A k \in CursorKeys, m \in CursorMods :
          CursorKeyPressed(obs', k, m)
          => /\ obs'.ret = TRUE
             /\ obs'.out =
                   (IF "ALT" \in m THEN << <<27>> >> ELSE <<>>)
                   \o << IF "CONTROL" \in m THEN <<27, 91, 49, 59, 53, k[2]>>
                         ELSE IF "CURSOR_KEY_MODE" \in vte.flags
                         THEN <<27, 79, k[2]>>
                         ELSE <<27, 91, k[2]>> >>
             /\ vte'.flags \cap {"CURSOR_KEY_MODE"}
                   = vte.flags \cap {"CURSOR_KEY_MODE"}
    /\ ("CURSOR_KEY_MODE" \in vte'.flags)
          = IF obs'.op = "input" /\ obs'.arg = <<27, 91, 63, 49, 104>>
            THEN TRUE
            ELSE IF \/ obs'.op \in {"reset", "hard_reset"}
                    \/ /\ obs'.op = "input"
                       /\ obs'.arg \in { <<27, 91, 63, 49, 108>>,
                                         <<27, 91, 33, 112>>, <<27, 99>> }
            THEN FALSE
            ELSE "CURSOR_KEY_MODE" \in vte.flags

C26_CursorKeys == [][C26_Step]_vars

\* with DECCKM set, End was sent as ESC O F
C26_Witness ==
    /\ CursorKeyPressed(obs, <<"End", 70>>, {})
    /\ "CURSOR_KEY_MODE" \in vte.flags
    /\ obs.out = << <<27, 79, 70>> >>
    /\ obs.ret = TRUE

(* ------------------------------- C27 ----------------------------------- *)
\* C27: after every completed call each mode bit agrees with the screen
\* flag it drives: auto-wrap, origin, insert and inverse are set together
\* with their screen flags, and the text cursor is on exactly when the
\* screen does not hide the cursor.
C27_ModesAgree ==
    /\ ("AUTO_WRAP_MODE" \in vte.flags) = ("AUTO_WRAP" \in con.flags)
    /\ ("ORIGIN_MODE" \in vte.flags) = ("REL_ORIGIN" \in con.flags)
    /\ ("INSERT_REPLACE_MODE" \in vte.flags) = ("INSERT_MODE" \in con.flags)
    /\ ("INVERSE_SCREEN_MODE" \in vte.flags) = ("INVERSE" \in con.flags)
    /\ ("TEXT_CURSOR_MODE" \in vte.flags) = ("HIDE_CURSOR" \notin con.flags)

\* DECRC brought origin mode back and auto-wrap off, on the instance and
\* on the screen, while the cursor is hidden
C27_Witness ==
    /\ obs.op = "input"
    /\ obs.arg = <<27, 56>>
    /\ obs.pre_flags \cap {"ORIGIN_MODE", "AUTO_WRAP_MODE"} = {"AUTO_WRAP_MODE"}
    /\ vte.flags \cap {"ORIGIN_MODE", "AUTO_WRAP_MODE", "TEXT_CURSOR_MODE"}
          = {"ORIGIN_MODE"}
    /\ con.flags = {"REL_ORIGIN", "HIDE_CURSOR"}

(* ------------------------------- C28 ----------------------------------- *)
DcsStates == {"DCS_ENTRY", "DCS_PARAM", "DCS_INT", "DCS_PASS", "DCS_IGNORE"}

\* the codepoints handled the same way in every state
GlobalPreempt == {24, 26, 27} \cup (128..159)

\* the parts of the instance a control function can change
Rendition(v) ==
    <<v.cattr, v.g0, v.g1, v.g2, v.g3, v.gl, v.gr, v.glt, v.grt, v.flags>>

\* C28: inside a DCS string, and inside an ignored SOS/PM/APC string, a
\* codepoint that is not handled the same in every state has no effect
\* outside the parser: no screen operation, no write, no bell, no OSC
\* callback, no change of attribute, G-sets, GL/GR or mode flags, and the
\* parser stays inside the string.
C28_Step ==
    \A c \in DcsCodepoints \ GlobalPreempt :
       (obs'.op = "input" /\ obs'.arg = Utf8(c)
          /\ vte.state \in DcsStates \cup {"ST_IGNORE"})
       => /\ obs'.scr = <<>>
          /\ obs'.out = <<>>
          /\ obs'.bell = 0
          /\ obs'.osc = <<>>
          /\ Rendition(vte') = Rendition(vte)
          /\ con' = con
          /\ vte'.state \in IF vte.state = "ST_IGNORE" THEN {"ST_IGNORE"}
                             ELSE DcsStates

C28_StringsInert == [][C28_Step]_vars

\* SO arrived inside the passthrough of a DCS string and GL is still G0
C28_Witness ==
    /\ obs.op = "input"
    /\ obs.arg = <<14>>
    /\ obs.pre_state = "DCS_PASS"
    /\ vte.state = "DCS_PASS"
    /\ vte.gl = "g0"
    /\ vte.osc_cb

(* ------------------------------- C29 ----------------------------------- *)
\* the call just made left the instance and its screen as they were and
\* issued no screen operation and no write
Untouched == vte' = vte /\ con' = con /\ obs'.scr = <<>> /\ obs'.out = <<>>

\* C29: set_palette and set_custom_palette fail with -EINVAL on a null
\* instance and with -ENOMEM when the copy cannot be allocated, and then
\* leave the instance (palette name, custom storage, active palette,
\* default and current attribute) and the screen untouched; creation with
\* a null output pointer, screen or write callback fails with -EINVAL,
\* creating nothing and touching no screen; input, reset, hard reset and
\* handle_keyboard on a null instance do nothing, handle_keyboard
\* returning false.
C29_Step ==
    /\ \A inst \in BOOLEAN, alloc \in BOOLEAN :
          /\ \A name \in {"NULL", "custom"} :
                (obs'.op = "set_palette" /\ obs'.arg = <<inst, name, alloc>>)
                => /\ obs'.err = IF ~inst THEN "EINVAL"
                                 ELSE IF name # "NULL" /\ ~alloc
                                 THEN "ENOMEM" ELSE "0"
                   /\ obs'.err # "0" => Untouched
          /\ \A p \in {<<>>, GreyPalette} :
                (obs'.op = "set_custom_palette"
                   /\ obs'.arg = <<inst, p, alloc>>)
                => /\ obs'.err = IF ~inst THEN "EINVAL"
                                 ELSE IF p # <<>> /\ ~alloc
                                 THEN "ENOMEM" ELSE "0"
                   /\ obs'.err # "0" => Untouched
    /\ \A out \in BOOLEAN, scr \in BOOLEAN, cb \in BOOLEAN, alloc \in BOOLEAN :
          (obs'.op = "new" /\ obs'.arg = <<out, scr, cb, alloc>>
             /\ (~out \/ ~scr \/ ~cb))
          => obs'.err = "EINVAL" /\ Untouched
    /\ obs'.op \in NullOps
          => Untouched /\ (obs'.op = "null_keyboard" => obs'.ret = FALSE)

C29_FailuresInert == [][C29_Step]_vars

\* set_palette ran out of memory on an instance that shows bold red with
\* the custom palette in force
C29_Witness ==
    /\ obs.op = "set_palette"
    /\ obs.err = "ENOMEM"
    /\ vte.palette_name = "custom"
    /\ vte.custom_palette_storage = GreyPalette
    /\ vte.cattr.bold = 1
    /\ vte.cattr.fccode = 1

(* ------------------------------- C30 ----------------------------------- *)
\* the codepoints the OSC buffers feed alone
OscSingles == {97, 233, 8364, 133, 7, 156, 157, 27}

\* the names of the actions the call logged in o performed, in order
ActNames(o) == [i \in 1..Len(o.acts) |-> o.acts[i].act]

IsAction(a) == a # "NONE"

\* the event the tables of parse_data give the codepoint c in the current
\* state, as <<target state, action>>
EventOf(c) ==
    IF anywhere(c) # <<>> THEN anywhere(c) ELSE per_state(vte.state, c)

\* the call just made fed the codepoint c alone and ran the actions of its
\* event in the order exit, transition, entry, the exit action being run
\* when exits holds of the target state, and the parser then stands in
\* the target state
TransitionRan(c, exits) ==
    (obs'.op = "input" /\ obs'.arg = Utf8(c) /\ Utf8Mode)
    => LET t == EventOf(c)
       IN  IF t[1] = "NONE"
           THEN /\ ActNames(obs') = SelectSeq(<<t[2]>>, IsAction)
                /\ vte'.state = vte.state
           ELSE /\ ActNames(obs')
                     = SelectSeq(<<IF exits THEN exit_action(vte.state)
                                   ELSE "NONE",
                                   t[2], entry_action(t[1])>>, IsAction)
                /\ vte'.state = t[1]

\* C30 as stated: the exit action is run only if the target state differs
\* from the current one
C30_Claimed ==
    [][\A c \in OscSingles :
          TransitionRan(c, EventOf(c)[1] # vte.state)]_vars

\* C30: an event that names a target state runs the exit action of the
\* old state, the transition action and the entry action of the new state
\* in this order and then changes the state, also when the target is the
\* state the parser is in: U+009D inside OSC_STRING ends the string
\* collected so far (the callback runs) and starts an empty one.  Only an
\* event without a target state runs its action alone.
C30_Step ==
    /\ \A c \in OscSingles : TransitionRan(c, TRUE)
    /\ (obs'.op = "input" /\ obs'.arg = Utf8(157)
           /\ vte.state = "OSC_STRING")
       => /\ ActNames(obs') = <<"OSC_END", "OSC_START">>
          /\ obs'.osc = IF vte.osc_cb THEN <<vte.osc_arg>> ELSE <<>>
          /\ vte'.osc_arg = <<>>
    /\ (obs'.op = "input" /\ obs'.arg = <<27, 92>>
           /\ vte.state = "OSC_STRING")
       => ActNames(obs') = <<"OSC_END", "CLEAR", "ESC_DISPATCH">>

C30_TransitionOrder == [][C30_Step]_vars

\* U+009D arrived inside an OSC string holding "a": the callback ran with
\* "a" and the parser is in OSC_STRING with an empty buffer
C30_Witness ==
    /\ obs.op = "input"
    /\ obs.arg = Utf8(157)
    /\ obs.pre_state = "OSC_STRING"
    /\ ActNames(obs) = <<"OSC_END", "OSC_START">>
    /\ obs.osc = << <<97>> >>
    /\ vte.state = "OSC_STRING"
    /\ vte.osc_len = 0

\* the current attribute after CSI tail m, fed to the instance as it
\* stands; a tail that is empty or one empty field stands for no code at all
AfterCodes(tail) ==
    IF tail \in {<<>>, <<-1>>} THEN vte.cattr
    ELSE tsm_vte_input(Call("input", SgrBytes(tail)), SgrBytes(tail)).vte.cattr

C31_Step ==
    \A k \in {38, 48}, t \in InvalidTails :
        (/\ vte.state = "GROUND"
         /\ obs'.op = "input"
         /\ obs'.arg = SgrBytes(<<k>> \o t)) =>
            /\ vte'.cattr = AfterCodes(t)
            /\ t = <<5>> => vte'.cattr = [vte.cattr EXCEPT !.blink = 1]
            /\ t = <<2>> => vte'.cattr = vte.cattr

\* C31: an SGR item 38 or 48 whose parameter list is invalid (selector 5
\* with a missing or empty index, selector 2 with fewer than three
\* components or an empty one, any other selector) changes no field of the
\* current attribute, and the scan goes on with the parameter right after
\* the 38 or 48: the attribute after CSI 38 ; tail m is the attribute after
\* CSI tail m, so CSI 38 ; 5 m turns blink on and changes nothing else.
C31_InvalidExtended == [][C31_Step]_vars

\* CSI 48 ; 5 ; ; 1 m arrived with a cube background and neither blink
\* nor bold: the background is what it was, blink and bold are on
C31_Witness ==
    /\ obs.op = "input"
    /\ obs.arg = SgrBytes(<<48, 5, -1, 1>>)
    /\ obs.pre_cattr.bccode = -1
    /\ obs.pre_cattr.blink = 0
    /\ obs.pre_cattr.bold = 0
    /\ vte.cattr.bccode = -1
    /\ <<vte.cattr.br, vte.cattr.bg, vte.cattr.bb>> = <<135, 135, 0>>
    /\ vte.cattr.blink = 1
    /\ vte.cattr.bold = 1

\* what the call leaves of the instance and what it did to the screen and
\* the writer are what world p holds
SameAs(p) ==
    /\ vte' = p.vte
    /\ con' = p.con
    /\ obs'.scr = p.obs.scr
    /\ obs'.out = p.obs.out

\* the call left and did what ESC f alone would have left and done
AsBare(f) == SameAs(tsm_vte_input(Call("input", <<27, f>>), <<27, f>>))

\* the call ran none of the functions of the second switch of do_esc
KeptAway ==
    /\ obs'.scr = <<>>
    /\ obs'.out = <<>>
    /\ con' = con
    /\ vte'.cattr = vte.cattr
    /\ vte'.flags = vte.flags
    /\ vte'.saved_state = vte.saved_state
    /\ <<vte'.gl, vte'.gr, vte'.glt>> = <<vte.gl, vte.gr, vte.glt>>

C32_Step ==
    \A f \in EscFinals :
        /\ \A i \in PlainInts :
              (/\ vte.state = "GROUND"
               /\ obs'.op = "input"
               /\ obs'.arg = <<27>> \o i \o <<f>>) =>
                  /\ AsBare(f)
                  /\ vte'.csi_flags = {}
                  /\ f = 56 =>
                        /\ vte'.cattr = vte.saved_state.cattr
                        /\ con'.cursor_x = vte.saved_state.cursor_x
                        /\ con'.cursor_y = vte.saved_state.cursor_y
                  /\ f = 55 => vte'.saved_state.cattr = vte.cattr
                  /\ f = 99 => ResetIn(obs')
        /\ \A i \in FlaggedInts :
              (/\ vte.state = "GROUND"
               /\ obs'.op = "input"
               /\ obs'.arg = <<27>> \o i \o <<f>>
               /\ f # 48) => KeptAway

\* C32: an ESC sequence whose intermediate bytes are all outside the
\* recognised set (! $ ? > SPACE ' " * + ( )) sets no intermediate flag and
\* has the effect of the same final byte with no intermediate: ESC # 8
\* restores the saved state, ESC # 7 saves it, ESC - c is a hard reset; a
\* sequence with at least one recognised intermediate runs none of the
\* no-intermediate functions.
C32_UnknownIntermediate == [][C32_Step]_vars

\* ESC # 8 arrived with bold red in effect: the attribute and the cursor
\* are the saved ones
C32_Witness ==
    /\ obs.op = "input"
    /\ obs.arg = <<27, 35, 56>>
    /\ obs.pre_cattr.bold = 1
    /\ obs.pre_cattr.fccode = 1
    /\ vte.cattr.bold = 0
    /\ vte.cattr.fccode = TSM_COLOR_FOREGROUND
    /\ Len(obs.scr) > 0
    /\ con.cursor_x = 0
    /\ vte.csi_flags = {}

\* C33: a soft reset by the API call puts every field of the instance back
\* to the value it had right after creation with the same palette and does
\* not touch the screen.  tsm_vte_reset leaves the CSI parameter vector,
\* its count and the intermediate flags, the OSC buffer, the re-entry
\* counter and the alternate-buffer cursor save as they were, and it
\* resets the screen, sets its auto-wrap flag and its default attribute.
C33_Claimed ==
    obs.op = "reset" =>
        /\ vte = tsm_vte_new.vte
        /\ obs.scr = <<>>

\* C34: while an SGR sequence is processed the extended-colour lookahead
\* reads only slots 0..15 of the parameter vector.  With sixteen
\* parameters of which the last is 38 or 48, csi_attribute tests
\* csi_argv[i + 1] at i = 15 before any comparison with csi_argc.
C34_Claimed ==
    (/\ obs.op = "input"
     /\ Len(obs.acts) > 0
     /\ obs.acts[Len(obs.acts)] = [act |-> "CSI_DISPATCH", data |-> 109]) =>
        \A j \in sgr_loop_reads(vte, 0) : j < CSI_ARG_MAX

\* the single codepoints that end an OSC string or cut it short: BEL, CAN,
\* SUB, ESC, the C1 control NEL, ST and the C1 opener OSC
OscExits == {7, 24, 26, 27, 133, 156, 157}

\* what the callback was handed during the call: the buffer as it stood
\* before the call, once, when a callback is registered
HandedOnce == obs'.osc = IF vte.osc_cb THEN <<vte.osc_arg>> ELSE <<>>

C35_Step ==
    /\ \A c \in OscExits :
          (/\ vte.state = "OSC_STRING"
           /\ obs'.op = "input"
           /\ obs'.arg = Utf8(c)) =>
              /\ HandedOnce
              /\ (vte'.state = "OSC_STRING") = (c = 157)
              /\ c = 157 => vte'.osc_arg = <<>>
    /\ (/\ vte.state = "OSC_STRING"
        /\ obs'.op = "input"
        /\ obs'.arg \in {<<27, 92>>, <<27, 93>>}) => HandedOnce
    /\ (/\ vte.state = "OSC_STRING"
        /\ obs'.op = "input"
        /\ obs'.arg \in {Utf8(c) : c \in {97, 233, 8364, 65535}}) =>
           (obs'.osc = <<>> /\ vte'.state = "OSC_STRING")
    /\ (vte.state = "ESC" /\ obs'.op = "input"
           /\ obs'.arg \in {<<97>>, <<24>>, <<7>>})
        => obs'.osc = <<>>

\* C35: every exit from OSC_STRING hands the bytes collected so far to the
\* registered OSC callback exactly once: BEL and ST, and also CAN, SUB, an
\* ESC (whatever follows it), a C1 control, and a U+009D that opens a new
\* OSC string inside the old one; a codepoint that is collected or dropped
\* hands nothing over.
C35_OscExits == [][C35_Step]_vars

\* CAN cut short an OSC string of 126 bytes and the callback received them
C35_Witness ==
    /\ obs.op = "input"
    /\ obs.arg = <<24>>
    /\ obs.pre_state = "OSC_STRING"
    /\ vte.osc_cb
    /\ vte.state = "GROUND"
    /\ obs.osc = << [i \in 1..126 |-> 97] >>

\* the call fed the single byte b
FedByte(b) == obs'.op = "input" /\ obs'.arg = <<b>>

\* the call did nothing outside the decoder and the parser state: no
\* action, no screen operation, no reply, and every other field of the
\* instance and the screen as before
Inert ==
    /\ obs'.acts \in {<<>>, <<[act |-> "IGNORE", data |-> obs'.arg[1]]>>}
    /\ obs'.scr = <<>>
    /\ obs'.out = <<>>
    /\ obs'.writes = <<>>
    /\ con' = con
    /\ vte' = [vte EXCEPT !.state = vte'.state, !.mach = vte'.mach]

C36_Step ==
    /\ \A b \in IgnoreBytes :
          FedByte(b) =>
             /\ (vte.state \in {"CSI_ENTRY", "CSI_PARAM"} /\ b = 58)
                   => (vte'.state = "CSI_IGNORE" /\ Inert)
             /\ (vte.state = "CSI_PARAM" /\ b \in 60..63)
                   => (vte'.state = "CSI_IGNORE" /\ Inert)
             /\ (vte.state = "CSI_INT" /\ b \in 48..63)
                   => (vte'.state = "CSI_IGNORE" /\ Inert)
             /\ (vte.state = "CSI_IGNORE" /\ b \in 32..63)
                   => (vte'.state = "CSI_IGNORE" /\ Inert)
             /\ (vte.state = "CSI_IGNORE" /\ b \in 64..126)
                   => (vte'.state = "GROUND" /\ Inert /\ obs'.acts = <<>>)
    /\ (FedByte(65) /\ vte.state = "GROUND")
          => obs'.acts = <<[act |-> "PRINT", data |-> 65]>>

\* C36: a CSI sequence enters CSI_IGNORE on ':' among the parameters, on a
\* private marker 0x3C..0x3F after a parameter and on a parameter byte
\* 0x30..0x3F after an intermediate; from then on parameter and
\* intermediate bytes are ignored and the final byte 0x40..0x7E returns the
\* parser to GROUND with no dispatch, no screen operation, no reply and no
\* change of attribute or mode; the byte after the final byte is parsed
\* as in GROUND.
C36_CsiIgnore == [][C36_Step]_vars

\* CSI 4 : h ended in GROUND and insert mode is still off
C36_Witness ==
    /\ obs.op = "input"
    /\ obs.arg = <<104>>
    /\ obs.pre_state = "CSI_IGNORE"
    /\ hist = <<27, 91, 52, 58, 104>>
    /\ vte.state = "GROUND"
    /\ vte.csi_argv[0] = 4
    /\ "INSERT_REPLACE_MODE" \notin vte.flags
    /\ obs.acts = <<>>

\* the bytes of m are whole encodings of 'a', U+00E9 and U+20AC
PrintablePayload(m) ==
    /\ WholeEncodings(m)
    /\ CodepointsIn(m) \subseteq OscPrintable

\* what is left of the payload m when its codepoints are taken in order
\* and each one is kept whole if the bytes kept so far (acc) and its own
\* make at most 127 and left out otherwise
RECURSIVE Kept(_, _)
Kept(m, acc) ==
    IF m = <<>> THEN acc
    ELSE Kept(SubSeq(m, LeadLen(m[1]) + 1, Len(m)),
              IF Len(acc) + LeadLen(m[1]) <= OSC_MAX_LEN - 1
              THEN acc \o SubSeq(m, 1, LeadLen(m[1])) ELSE acc)

\* Kept for a long payload, taken half by half (split where an encoding
\* starts)
RECURSIVE KeptRun(_, _)
KeptRunRest(l, m, h) ==
    IF Len(l) >= 0 THEN KeptRun(SubSeq(m, h + 1, Len(m)), l) ELSE l

KeptRun(m, acc) ==
    IF Len(m) <= 16 THEN Kept(m, acc)
    ELSE LET h == CHOOSE i \in (Len(m) \div 2)..((Len(m) \div 2) + 3) :
                     LeadLen(m[i + 1]) # 0
         IN  KeptRunRest(KeptRun(SubSeq(m, 1, h), acc), m, h)

\* C37: the OSC buffer, and what the callback is handed at BEL, is the
\* payload with the codepoints left out that did not fit when they came: a
\* subsequence of the payload of at most 127 bytes, not always a prefix,
\* since a codepoint with a shorter encoding that comes after a dropped
\* one is still appended when it fits.
C37_Subsequence ==
    OpenedAfter(<<>>) =>
        LET r == AfterOpener(<<>>) IN
        /\ (vte.state = "OSC_STRING" /\ PrintablePayload(r)) =>
              /\ vte.osc_arg = KeptRun(r, <<>>)
              /\ vte.osc_len <= OSC_MAX_LEN - 1
        /\ (/\ Len(r) >= 1
            /\ r[Len(r)] = 7
            /\ PrintablePayload(SubSeq(r, 1, Len(r) - 1))
            /\ vte.osc_cb) =>
              obs.osc = << KeptRun(SubSeq(r, 1, Len(r) - 1), <<>>) >>

\* the payload was 126 'a', U+20AC and 'a': the callback received 127 'a',
\* which is no prefix of it
C37_Witness ==
    /\ vte.osc_cb
    /\ hist = <<27, 93>> \o [i \in 1..126 |-> 97] \o Utf8(8364) \o <<97, 7>>
    /\ obs.osc = << [i \in 1..127 |-> 97] >>
    /\ vte.state = "GROUND"

\* C38: the prepend-escape flag is clear whenever no call of
\* handle_keyboard is in progress: every path through it (a consumed key,
\* an unconsumed key, the unicode fallback) ends with the flag clear and
\* no input sets it, so no write made by a top-level input call (the DA,
\* DSR and ENQ answers) is preceded by 0x1B.
C38_FlagClear ==
    /\ "PREPEND_ESCAPE" \notin vte.flags
    /\ obs.op \in {"input", "reset", "hard_reset"} =>
          /\ "PREPEND_ESCAPE" \notin obs.pre_flags
          /\ \A i \in 1..Len(obs.writes) : ~obs.writes[i].esc

\* Alt with a key that has no payload was refused with local echo on; the
\* flag is clear and nothing was written
C38_Witness ==
    /\ obs.op = "keyboard"
    /\ obs.arg = <<"Shift_L", "NoSymbol", {"ALT"}, -1>>
    /\ "SEND_RECEIVE_MODE" \notin obs.pre_flags
    /\ ~obs.ret
    /\ obs.writes = <<>>
    /\ "PREPEND_ESCAPE" \notin vte.flags


(* ---------------------- C39: the keyboard's verdict --------------------- *)
\* the writes of a call that the call itself made, not its echo
TopWrites(ws) == {i \in 1..Len(ws) : ws[i].cnt = 0}

\* C39 as stated: a keyboard call that returns true has made exactly one
\* payload delivery to the write callback, preceded by at most one 0x1B,
\* and a call that returns false has delivered nothing
C39_Claimed ==
    obs.op = "keyboard" =>
        IF obs.ret
        THEN /\ Len(obs.writes) = 1
             /\ Len(obs.out) = IF obs.writes[1].esc THEN 2 ELSE 1
        ELSE obs.writes = <<>> /\ obs.out = <<>>

C39_Step ==
    obs'.op = "keyboard" =>
        LET p == keyboard_payload(vte, obs'.arg[1], obs'.arg[2],
                                  obs'.arg[3], obs'.arg[4])
            n == Len(obs'.writes)
        IN  IF obs'.ret
            THEN /\ p.send
                 /\ n >= 1
                 /\ TopWrites(obs'.writes) = {n}
                 /\ obs'.writes[n].u8 = p.u8
                 /\ obs'.out[Len(obs'.out)] = p.u8
                 /\ "SEND_RECEIVE_MODE" \in vte.flags =>
                        /\ n = 1
                        /\ obs'.out = (IF "ALT" \in obs'.arg[3]
                                       THEN <<(<<27>>)>> ELSE <<>>)
                                      \o <<p.u8>>
            ELSE /\ ~p.send
                 /\ obs'.writes = <<>>
                 /\ obs'.out = <<>>
                 /\ vte' = vte
                 /\ con' = con

\* C39 (amended): a keyboard call returns true exactly when the tables or
\* the unicode value give it a payload; the call then hands that payload
\* to the writer once, as the last delivery to the write callback; with
\* SEND_RECEIVE_MODE set that is the only delivery, preceded by one 0x1B
\* when Alt is held, while with local echo the replies that the echoed
\* bytes provoke are delivered before it; a call that returns false
\* delivers nothing and leaves the instance and the screen as they were
C39_KeyboardVerdict == [][C39_Step]_vars

\* Control+E with local echo: the echoed ENQ is answered with ACK before
\* the key's own byte reaches the write callback
C39_Witness ==
    /\ obs.op = "keyboard"
    /\ obs.arg = <<"e", "NoSymbol", {"CONTROL"}, -1>>
    /\ "SEND_RECEIVE_MODE" \notin obs.pre_flags
    /\ obs.ret
    /\ obs.out = << <<6>>, <<5>> >>


(* ------------------- C40: TITE_INHIBIT_MODE never set ------------------- *)
C40_Step ==
    /\ "TITE_INHIBIT_MODE" \notin vte.flags
    /\ "TITE_INHIBIT_MODE" \notin vte'.flags
    /\ DecModeFed(obs', <<52, 55>>, 104) =>
          /\ obs'.scr = << <<"set_flags", "ALTERNATE", 0>> >>
          /\ "ALTERNATE" \in con'.flags
    /\ DecModeFed(obs', <<52, 55>>, 108) =>
          /\ obs'.scr = << <<"reset_flags", "ALTERNATE", 0>> >>
          /\ "ALTERNATE" \notin con'.flags
    /\ DecModeFed(obs', <<49, 48, 52, 55>>, 104) =>
          /\ obs'.scr = << <<"set_flags", "ALTERNATE", 0>> >>
          /\ "ALTERNATE" \in con'.flags
    /\ DecModeFed(obs', <<49, 48, 52, 55>>, 108) =>
          /\ obs'.scr = << <<"erase_screen", FALSE, 0>>,
                           <<"reset_flags", "ALTERNATE", 0>> >>
          /\ "ALTERNATE" \notin con'.flags
    /\ DecModeFed(obs', <<49, 48, 52, 56>>, 104) =>
          /\ obs'.scr = <<>>
          /\ vte'.alt_cursor_x = con.cursor_x
          /\ vte'.alt_cursor_y = con.cursor_y
    /\ DecModeFed(obs', <<49, 48, 52, 56>>, 108) =>
          /\ obs'.scr = << <<"move_to", vte.alt_cursor_x,
                             vte.alt_cursor_y>> >>
          /\ con'.cursor_x = vte.alt_cursor_x
          /\ con'.cursor_y = vte.alt_cursor_y
    /\ DecModeFed(obs', <<49, 48, 52, 57>>, 104) =>
          /\ Len(obs'.scr) = 2
          /\ obs'.scr[1] = <<"set_flags", "ALTERNATE", 0>>
          /\ "ALTERNATE" \in con'.flags
    /\ DecModeFed(obs', <<49, 48, 52, 57>>, 108) =>
          /\ Len(obs'.scr) = 2
          /\ obs'.scr[1] = <<"reset_flags", "ALTERNATE", 0>>
          /\ "ALTERNATE" \notin con'.flags

\* C40: TITE_INHIBIT_MODE is clear before and after every call (input,
\* keyboard event, soft and hard reset), and so each of the private modes
\* ?47, ?1047, ?1048 and ?1049, set or reset, acts on the screen or on
\* the captured cursor every time it is fed
C40_TiteNeverInhibits == [][C40_Step]_vars

\* CSI ? 47 h arrived with the keypad in application mode and local echo
\* on, and the screen switched to the alternate buffer
C40_Witness ==
    /\ DecModeFed(obs, <<52, 55>>, 104)
    /\ obs.scr = << <<"set_flags", "ALTERNATE", 0>> >>
    /\ "ALTERNATE" \in con.flags
    /\ "KEYPAD_APPLICATION_MODE" \in obs.pre_flags
    /\ "SEND_RECEIVE_MODE" \notin obs.pre_flags
    /\ "TITE_INHIBIT_MODE" \notin obs.pre_flags

============================================================================
